---- MODULE Spec2Model ----
(***************************************************************************)
(* Model of modred's FieldOperations (src/fieldoperations.py): the chunked *)
(* inner-product engines, the linear-combination engine and the mode       *)
(* computation built on it.                                                *)
(*                                                                         *)
(* A FieldOperations object is constructed (Init), then serves the calls   *)
(* of a caller's scenario one after the other.  Each method is a process   *)
(* whose position is pc; one action is one loop step of the source.        *)
(* Indices are 0-based as in the source; TLA+ sequences are 1-based, so    *)
(* the Python element s[i] is s[i + 1] here.                               *)
(***************************************************************************)
EXTENDS Integers, Sequences, FiniteSets, TLC

VARIABLES
    \* ---- the FieldOperations object (lines 30-43)
    maxFields,          \* self.maxFields
    numProcs,           \* util.getNumProcs(), size of self.pool
    chunkSizes,         \* util.find_numRows_numCols_per_chunk(self.maxFields)
    inner_product,      \* self.inner_product: a kind of IPKinds, or "None"
    save_field,         \* self.save_field: "save" or "None"
    fault,              \* the pluggable operation that raises, or NoFault
    \* ---- the world outside the object
    storage,            \* handle -> field on storage (NoField: nothing there)
    todo,               \* the calls the caller still makes, in order
    rets,               \* the calls completed so far, with what they returned
    saveLog,            \* every save_field(field, path) made, in order
    numLoads,           \* number of load_field calls of the running call
    callLog,            \* the calls of the running call, in order: the
                        \* load_field, inner_product and save_field calls
                        \* made, and the layers lin_combine_chunk added
    stderr,             \* the progress lines the running call printed
    numResident,        \* most Field objects referenced at once during the
                        \* running call
    \* ---- the running call
    pc,                 \* position in the running method ("idle": none)
    rowFieldPaths,      \* row handles after orientation
    colFieldPaths,      \* column handles after orientation
    transpose,          \* compute_inner_product_mat's transpose flag
    chunkTranspose,     \* _compute_inner_product_chunk's transpose flag
    startRowIndex,
    startColIndex,
    rowSnaps,           \* the loaded row batch (rowSnaps / rowFields)
    colSnaps,           \* the loaded column batch (colSnaps / colFields)
    innerProductMat,    \* the matrix being filled
    \* ---- lin_combine / _compute_modes
    outputFieldPaths,
    inputFieldPaths,
    fieldCoeffMat,      \* the matrix lin_combine was called with
    numInputsPerChunk,
    numOutputsPerNode,
    startOutputIndex,
    startInputIndex,
    inputs,             \* the loaded input batch
    outputLayers,       \* the accumulators of the current output batch
    \* ---- idiot_check
    testObj,            \* the test object
    objCopyMag2,        \* inner_product(objCopy, objCopy)
    objResult           \* objMult, objAdd or objAddMult

objVars  == <<maxFields, numProcs, chunkSizes, inner_product, save_field,
              fault>>
obsVars  == <<callLog, stderr, numResident>>
ipVars   == <<rowFieldPaths, colFieldPaths, transpose, chunkTranspose,
              startRowIndex, startColIndex, rowSnaps, colSnaps,
              innerProductMat>>
lcVars   == <<outputFieldPaths, inputFieldPaths, fieldCoeffMat,
              numInputsPerChunk, numOutputsPerNode, startOutputIndex,
              startInputIndex, inputs, outputLayers>>
icVars   == <<testObj, objCopyMag2, objResult>>
vars     == <<objVars, storage, todo, rets, saveLog, numLoads, obsVars, pc,
              ipVars, lcVars, icVars>>

-----------------------------------------------------------------------------
(* Bounds of the model *)

NumHandles == 3         \* snapshot handles on storage
MaxLen == 3             \* longest handle sequence of a request
MaxFieldsBound == 3     \* largest memory budget maxFields
MaxProcs == 2           \* largest number of pool workers
MaxCoord == 2           \* largest coordinate of a test object

-----------------------------------------------------------------------------
(* Fields, handles and storage *)

\* A Field is a vector of two integers; the engine treats it as opaque.
NoField == <<>>

\* Handles are paths: the snapshots on storage, the output paths of
\* lin_combine, and the mode paths modePath % modeNum.
SnapHandles == {<<"snap", n>> : n \in 1..NumHandles}
OutHandles  == {<<"out", n>> : n \in 1..MaxLen}
ModeNums    == 0..(MaxLen + 1)
ModeHandles == {<<"mode", m>> : m \in ModeNums}
AllHandles  == SnapHandles \cup OutHandles \cup ModeHandles

\* What is on storage before any call: a different field behind each
\* snapshot handle, nothing at the output and mode paths.
InitStorage ==
    [h \in AllHandles |->
        IF h \in SnapHandles THEN <<h[2], h[2] * h[2] + 1>> ELSE NoField]

\* The handle sequences of the requests: n snapshot handles, starting at any
\* handle and going round the handles on storage.
HandleSeq(first, n) ==
    [k \in 1..n |-> <<"snap", ((first + k - 2) % NumHandles) + 1>>]

HandleSeqs == {HandleSeq(first, n) : first \in 1..NumHandles, n \in 1..MaxLen}

\* load_field(path)
load_field(st, path) == st[path]

\* The pluggable inner products: "dot" is symmetric, "skew" is bilinear but
\* not symmetric in its two arguments.
IPKinds == {"dot", "skew"}

InnerProduct(kind, a, b) ==
    IF kind = "dot" THEN a[1] * b[1] + a[2] * b[2] ELSE a[1] * b[2]

\* Field arithmetic: testObj * factor and fieldA + fieldB
FieldMul(f, c) == <<f[1] * c, f[2] * c>>
FieldAdd(f, g) == <<f[1] + g[1], f[2] + g[2]>>

\* The pluggable operations may raise: load_field or save_field for one path,
\* the multiplication of the field loaded from one path by a scalar, or the
\* addition of the layer made from it.
NoFault == [op |-> "none", path |-> <<"none", 0>>]

Faults ==
    {[op |-> o, path |-> h] : o \in {"load", "mul", "add"}, h \in SnapHandles}
    \cup {[op |-> "save", path |-> h] : h \in OutHandles}

\* Whether the operation raises for one of paths[start:end]
Raises(op, paths, start, end) ==
    /\ fault.op = op
    /\ \E k \in (start + 1)..end : paths[k] = fault.path

-----------------------------------------------------------------------------
(* util.find_numRows_numCols_per_chunk: every pair the ChunkSizer contract *)
(* allows for a budget (both at least 1, together within the budget, and   *)
(* (1, 1) for the degenerate budget 1).                                    *)

ChunkSizer(budget) ==
    {<<r, c>> \in (1..MaxFieldsBound) \X (1..MaxFieldsBound) :
        r + c <= (IF budget < 2 THEN 2 ELSE budget)}

numRowsPerChunk == chunkSizes[1]
numColsPerChunk == chunkSizes[2]

-----------------------------------------------------------------------------
(* Matrices: a matrix is a sequence of rows, each a sequence of scalars *)

Zeros(nr, nc) == [i \in 1..nr |-> [j \in 1..nc |-> 0]]

NumRowsOf(m) == Len(m)
NumColsOf(m) == IF Len(m) = 0 THEN 0 ELSE Len(m[1])

\* innerProductMat.T
Transpose(m) ==
    [j \in 1..NumColsOf(m) |-> [i \in 1..NumRowsOf(m) |-> m[i][j]]]

\* N.triu(m, 1): the strictly upper triangle, zero elsewhere
Triu1(m) ==
    [i \in 1..NumRowsOf(m) |->
        [j \in 1..NumColsOf(m) |-> IF j > i THEN m[i][j] ELSE 0]]

\* The upper triangle left as the chunk routine returned it
SymmetrizeNoMirror(m) == m

\* innerProductMat += N.triu(innerProductMat, 1).T
Symmetrize(m) ==
    [i \in 1..NumRowsOf(m) |->
        [j \in 1..NumColsOf(m) |-> m[i][j] + Transpose(Triu1(m))[i][j]]]

\* Every batch runs to the end of the collection
EndIndexWhole(num, start, perChunk) == num

\* min(num, start + perChunk): the end index of the batch starting at start
EndIndex(num, start, perChunk) ==
    IF start + perChunk < num THEN start + perChunk ELSE num

\* self.pool.map(self.load_field, paths[start:end])
PoolMapLoad(st, paths, start, end) ==
    [k \in 1..(end - start) |-> load_field(st, paths[start + k])]

\* The first position of a loaded batch
BatchPosFirst(index, start) == 1

\* Position in a loaded batch of the field with global index: index - start
BatchPos(index, start) == (index - start) + 1

\* The double loop of lines 238-242 (and 408-413): every cell of the block
\* [startRow, endRow) x [startCol, endCol) gets its inner product.
FillBlock(m, kind, rows, cols, startRow, endRow, startCol, endCol) ==
    [i \in 1..NumRowsOf(m) |->
        [j \in 1..NumColsOf(m) |->
            IF /\ startRow <= i - 1 /\ i - 1 < endRow
               /\ startCol <= j - 1 /\ j - 1 < endCol
            THEN InnerProduct(kind, rows[BatchPos(i - 1, startRow)],
                                    cols[BatchPos(j - 1, startCol)])
            ELSE m[i][j]]]

\* Every cell of the square block of the resident row batch
FillDiagBlockWholeSquare(m, kind, rows, startRow, endRow) ==
    [i \in 1..NumRowsOf(m) |->
        [j \in 1..NumColsOf(m) |->
            IF /\ startRow <= i - 1 /\ i - 1 < endRow
               /\ startRow <= j - 1 /\ j - 1 < endRow
            THEN InnerProduct(kind, rows[BatchPos(i - 1, startRow)],
                                    rows[BatchPos(j - 1, startRow)])
            ELSE m[i][j]]]

\* The diagonal cells are left out
FillDiagBlockStrictUpper(m, kind, rows, startRow, endRow) ==
    [i \in 1..NumRowsOf(m) |->
        [j \in 1..NumColsOf(m) |->
            IF /\ startRow <= i - 1 /\ i - 1 < endRow
               /\ i < j /\ j - 1 < endRow
            THEN InnerProduct(kind, rows[BatchPos(i - 1, startRow)],
                                    rows[BatchPos(j - 1, startRow)])
            ELSE m[i][j]]]

\* The loops of lines 369-380: the diagonal and the strictly upper cells of
\* the square block of the resident row batch.
FillDiagBlock(m, kind, rows, startRow, endRow) ==
    [i \in 1..NumRowsOf(m) |->
        [j \in 1..NumColsOf(m) |->
            IF /\ startRow <= i - 1 /\ i - 1 < endRow
               /\ i <= j /\ j - 1 < endRow
            THEN InnerProduct(kind, rows[BatchPos(i - 1, startRow)],
                                    rows[BatchPos(j - 1, startRow)])
            ELSE m[i][j]]]

-----------------------------------------------------------------------------
(* Requests and completed calls *)

\* A request names the method, its arguments and the verbose flag the object
\* serving it was constructed with (line 34); the objects serving the calls
\* of one scenario differ in nothing else.
RectReq(R, C, v) == [op |-> "rect", rows |-> R, cols |-> C, verbose |-> v]
SymReq(H, v)     == [op |-> "sym", rows |-> H, cols |-> H, verbose |-> v]

\* _compute_upper_triangular_inner_product_chunk called directly
SymChunkReq(R, C, v) ==
    [op |-> "symchunk", rows |-> R, cols |-> C, verbose |-> v]

\* A completed call: its request, the exception it raised ("none": it
\* returned) with the line that raised it, the matrix it returned, the
\* numbers of load_field and save_field calls it made, the log of its calls
\* in order, the progress lines it printed and the
\* first index of the output batch it was working on when it ended.
Completed(req, kind, line, mat, loads, saves, calls, printed, at) ==
    [req |-> req, err |-> kind, line |-> line, mat |-> mat,
     loads |-> loads, saves |-> saves, calls |-> calls, printed |-> printed,
     at |-> at]

NoMat == <<>>

\* The scenarios of the inner-product engines: a rectangular matrix, without
\* and then with progress reports; a symmetric matrix followed by the
\* rectangular matrix of the same handles; a symmetric matrix without and
\* then with progress reports; one direct call of the upper-triangular chunk
\* routine.
IPScenarios ==
    {<<RectReq(R, C, FALSE), RectReq(R, C, TRUE)>> :
        R \in HandleSeqs, C \in HandleSeqs}
    \cup {<<SymReq(H, v), RectReq(H, H, v)>> :
        H \in HandleSeqs, v \in BOOLEAN}
    \cup {<<SymReq(H, FALSE), SymReq(H, TRUE)>> : H \in HandleSeqs}
    \cup {<<SymChunkReq(R, C, v)>> :
        R \in HandleSeqs, C \in HandleSeqs, v \in BOOLEAN}

-----------------------------------------------------------------------------
(* The running call *)

Request == Head(todo)

\* self.verbose of the object serving the running call
verbose == Request.verbose

numRows == Len(rowFieldPaths)
numCols == Len(colFieldPaths)
endRowIndex == EndIndex(numRows, startRowIndex, numRowsPerChunk)
endColIndex == EndIndex(numCols, startColIndex, numColsPerChunk)

\* An exception went up to the caller, who makes no further call.
Failed == \E k \in DOMAIN rets : rets[k].err # "none"

\* The caller makes the next call of its scenario.
Calls(op) ==
    /\ pc = "idle"
    /\ ~Failed
    /\ todo # <<>>
    /\ Request.op = op

\* A call ends: its outcome is recorded and the locals of the call die; log
\* is the save log at the end of the call.
FinishSaved(kind, line, mat, loads, log) ==
    /\ rets' = Append(rets,
                      Completed(Request, kind, line, mat, loads,
                                Cardinality({e \in DOMAIN log :
                                    log[e].call = Len(rets) + 1}),
                                callLog, stderr, startOutputIndex))
    /\ callLog' = <<>>
    /\ stderr' = <<>>
    /\ numResident' = 0
    /\ testObj' = testObj
    /\ objCopyMag2' = 0
    /\ objResult' = NoField
    /\ todo' = Tail(todo)
    /\ pc' = "idle"
    /\ rowFieldPaths' = <<>>
    /\ colFieldPaths' = <<>>
    /\ transpose' = FALSE
    /\ chunkTranspose' = FALSE
    /\ startRowIndex' = 0
    /\ startColIndex' = 0
    /\ rowSnaps' = <<>>
    /\ colSnaps' = <<>>
    /\ innerProductMat' = NoMat
    /\ outputFieldPaths' = <<>>
    /\ inputFieldPaths' = <<>>
    /\ fieldCoeffMat' = NoMat
    /\ numInputsPerChunk' = 0
    /\ numOutputsPerNode' = 0
    /\ startOutputIndex' = 0
    /\ startInputIndex' = 0
    /\ inputs' = <<>>
    /\ outputLayers' = <<>>

\* A call that made no save in its last step ends.
Finish(kind, line, mat, loads) == FinishSaved(kind, line, mat, loads, saveLog)

-----------------------------------------------------------------------------
(* compute_inner_product_mat and _compute_inner_product_chunk *)

Max(a, b) == IF a > b THEN a ELSE b

\* Every path of the batch is loaded twice
LoadEventsTwice(paths, start, end) ==
    [k \in 1..(2 * (end - start)) |-> <<"load", paths[start + ((k + 1) \div 2)]>>]

\* The load_field calls of pool.map over paths[start:end], in order
LoadEvents(paths, start, end) ==
    [k \in 1..(end - start) |-> <<"load", paths[start + k]>>]

\* The inner_product calls of the double loop of lines 238-242 (and
\* 408-413), in loop order: row by row, the columns of the batch in order.
\* Each call is logged with its two arguments and the cell [rowIndex,
\* colIndex] its result is assigned to.
BlockEvents(rows, cols, startRow, startCol) ==
    [k \in 1..(Len(rows) * Len(cols)) |->
        <<"ip", rows[((k - 1) \div Len(cols)) + 1],
                cols[((k - 1) % Len(cols)) + 1],
                startRow + ((k - 1) \div Len(cols)),
                startCol + ((k - 1) % Len(cols))>>]

\* The batch after the one starting at start begins one index later
NextStartByOne(start, perChunk) == start + 1

\* range(0, num, perChunk): the start of the batch after the one starting at
\* start (lines 218, 228, 355, 396 and 611)
NextStart(start, perChunk) == start + perChunk

\* Line 211 (and 338): the progress is printed after this many columns
PrintAfterNumCols(nc) == (nc \div 5) + 1

\* Line 105: whether _print_inner_product_progress prints at all
ProgressDue(endCol, nc) ==
    endCol % PrintAfterNumCols(nc) = 0 \/ endCol = nc

\* The matrix without cells
ProgressDenominatorZero(nr, nc) == 0

\* Lines 108-109: the number the completed inner products are divided by
ProgressDenominator(nr, nc) == nc * nr

\* Lines 106-113: the line printed on sys.stderr, the percentage to one
\* decimal place (in tenths of a percent)
ProgressLine(startRow, endRow, endCol, nr, nc) ==
    LET numCompletedIPs == startRow * nc + (endRow - startRow) * endCol
    IN  <<(1000 * numCompletedIPs) \div ProgressDenominator(nr, nc),
          endRow, endCol, nr, nc>>

\* Lines 131-147 and 193-215: orientation (twice: the facade's and the
\* chunk routine's own), then the zero matrix.
CallRect ==
    /\ Calls("rect")
    /\ LET R == Request.rows
           C == Request.cols
           swap == Len(R) > Len(C)
           R1 == IF swap THEN C ELSE R
           C1 == IF swap THEN R ELSE C
           swap2 == Len(R1) > Len(C1)
           R2 == IF swap2 THEN C1 ELSE R1
           C2 == IF swap2 THEN R1 ELSE C1
       IN  /\ transpose' = swap
           /\ chunkTranspose' = swap2
           /\ rowFieldPaths' = R2
           /\ colFieldPaths' = C2
           /\ innerProductMat' = Zeros(Len(R2), Len(C2))
    /\ startRowIndex' = 0
    /\ startColIndex' = 0
    /\ numLoads' = 0
    /\ pc' = "ip_rows"
    /\ UNCHANGED <<objVars, storage, todo, rets, saveLog, obsVars, rowSnaps,
                   colSnaps, lcVars, icVars>>

\* Lines 218-225: the next row batch is loaded, or the row loop ends.  While
\* pool.map builds the new list, rowSnaps and colSnaps still hold the batches
\* loaded before.
RectRowLoop ==
    /\ pc = "ip_rows"
    /\ IF startRowIndex < numRows
       THEN /\ rowSnaps' = PoolMapLoad(storage, rowFieldPaths,
                                       startRowIndex, endRowIndex)
            /\ numLoads' = numLoads + (endRowIndex - startRowIndex)
            /\ callLog' = callLog \o LoadEvents(rowFieldPaths, startRowIndex,
                                                endRowIndex)
            /\ numResident' = Max(numResident,
                                  Len(rowSnaps) + Len(colSnaps)
                                  + (endRowIndex - startRowIndex))
            /\ startColIndex' = 0
            /\ pc' = "ip_cols"
       ELSE /\ pc' = "ip_return"
            /\ UNCHANGED <<rowSnaps, numLoads, callLog, numResident,
                           startColIndex>>
    /\ UNCHANGED <<objVars, storage, todo, rets, saveLog, stderr,
                   rowFieldPaths, colFieldPaths, transpose, chunkTranspose,
                   startRowIndex, colSnaps, innerProductMat, lcVars, icVars>>

\* Lines 228-235: the next column batch is loaded, or the column loop ends
\* and the row loop moves on.  While pool.map builds the new list, colSnaps
\* still holds the column batch loaded before.
RectColLoop ==
    /\ pc = "ip_cols"
    /\ IF startColIndex < numCols
       THEN /\ colSnaps' = PoolMapLoad(storage, colFieldPaths,
                                       startColIndex, endColIndex)
            /\ numLoads' = numLoads + (endColIndex - startColIndex)
            /\ callLog' = callLog \o LoadEvents(colFieldPaths, startColIndex,
                                                endColIndex)
            /\ numResident' = Max(numResident,
                                  Len(rowSnaps) + Len(colSnaps)
                                  + (endColIndex - startColIndex))
            /\ pc' = "ip_block"
            /\ UNCHANGED startRowIndex
       ELSE /\ startRowIndex' = NextStart(startRowIndex, numRowsPerChunk)
            /\ pc' = "ip_rows"
            /\ UNCHANGED <<colSnaps, numLoads, callLog, numResident>>
    /\ UNCHANGED <<objVars, storage, todo, rets, saveLog, stderr,
                   rowFieldPaths, colFieldPaths, transpose, chunkTranspose,
                   startColIndex, rowSnaps, innerProductMat, lcVars, icVars>>

\* Lines 259-262 (and 387-389, 414-417): the progress report after a block,
\* for the block's endColIndex; the column loop goes on at pc next with
\* startColIndex nextCol.
\* Calling self.inner_product when none was supplied, and dividing by zero,
\* raise.
BlockDone(mat, events, endCol, line, next, nextCol) ==
    IF inner_product = "None"
    THEN Finish("TypeError", line, NoMat, numLoads)
    ELSE IF verbose /\ ProgressDue(endCol, numCols)
            /\ ProgressDenominator(numRows, numCols) = 0
    THEN Finish("ZeroDivisionError", 108, NoMat, numLoads)
    ELSE /\ innerProductMat' = mat
         /\ callLog' = callLog \o events
         /\ stderr' = IF verbose /\ ProgressDue(endCol, numCols)
                      THEN Append(stderr,
                                  ProgressLine(startRowIndex, endRowIndex,
                                               endCol, numRows, numCols))
                      ELSE stderr
         /\ pc' = next
         /\ startColIndex' = nextCol
         /\ UNCHANGED <<todo, rets, numResident, rowFieldPaths, colFieldPaths,
                        transpose, chunkTranspose, startRowIndex, rowSnaps,
                        colSnaps, lcVars, icVars>>

\* Lines 238-242 and 259-262: the inner products of the block, then the
\* progress report.
RectBlock ==
    /\ pc = "ip_block"
    /\ BlockDone(FillBlock(innerProductMat, inner_product, rowSnaps, colSnaps,
                           startRowIndex, endRowIndex,
                           startColIndex, endColIndex),
                 BlockEvents(rowSnaps, colSnaps, startRowIndex, startColIndex),
                 endColIndex, 240, "ip_cols",
                 NextStart(startColIndex, numColsPerChunk))
    /\ UNCHANGED <<objVars, storage, saveLog, numLoads>>

\* Lines 266-269 and 161-166: the chunk routine transposes back, then the
\* facade does.
RectResult(m, innerSwap, outerSwap) ==
    LET chunk == IF innerSwap THEN Transpose(m) ELSE m
    IN  IF outerSwap THEN Transpose(chunk) ELSE chunk

RectReturn ==
    /\ pc = "ip_return"
    /\ Finish("none", 0,
              RectResult(innerProductMat, chunkTranspose, transpose),
              numLoads)
    /\ UNCHANGED <<objVars, storage, saveLog, numLoads>>

-----------------------------------------------------------------------------
(* compute_symmetric_inner_product_mat and                                 *)
(* _compute_upper_triangular_inner_product_chunk                           *)

\* colFieldPaths[:numRows]
Prefix(s, n) == SubSeq(s, 1, IF n < Len(s) THEN n ELSE Len(s))

\* Only the lengths are compared
LeadingEntriesDifferInLength(R, C) == Len(R) > Len(C)

\* Line 331: rowFieldPaths != colFieldPaths[:numRows]
LeadingEntriesDiffer(R, C) == R # Prefix(C, Len(R))

\* Lines 326-353: the prefix check, then the zero matrix.
EnterSymChunk(R, C) ==
    IF LeadingEntriesDiffer(R, C)
    THEN Finish("ValueError", 332, NoMat, 0)
    ELSE /\ rowFieldPaths' = R
         /\ colFieldPaths' = C
         /\ innerProductMat' = Zeros(Len(R), Len(C))
         /\ startRowIndex' = 0
         /\ startColIndex' = 0
         /\ pc' = "sym_rows"
         /\ UNCHANGED <<todo, rets, obsVars, transpose, chunkTranspose,
                        rowSnaps, colSnaps, lcVars, icVars>>

\* Lines 282-293: the facade hands its handles over as rows and as columns.
CallSym ==
    /\ Calls("sym")
    /\ numLoads' = 0
    /\ EnterSymChunk(Request.rows, Request.rows)
    /\ UNCHANGED <<objVars, storage, saveLog>>

\* Lines 302-327: the chunk routine called with rows and columns of its own.
CallSymChunk ==
    /\ Calls("symchunk")
    /\ numLoads' = 0
    /\ EnterSymChunk(Request.rows, Request.cols)
    /\ UNCHANGED <<objVars, storage, saveLog>>

\* Lines 355-364: the next row batch is loaded, or the row loop ends.  While
\* pool.map builds the new list, rowFields and colFields still hold the
\* batches loaded before.
SymRowLoop ==
    /\ pc = "sym_rows"
    /\ IF startRowIndex < numRows
       THEN /\ rowSnaps' = PoolMapLoad(storage, rowFieldPaths,
                                       startRowIndex, endRowIndex)
            /\ numLoads' = numLoads + (endRowIndex - startRowIndex)
            /\ callLog' = callLog \o LoadEvents(rowFieldPaths, startRowIndex,
                                                endRowIndex)
            /\ numResident' = Max(numResident,
                                  Len(rowSnaps) + Len(colSnaps)
                                  + (endRowIndex - startRowIndex))
            /\ pc' = "sym_diag"
       ELSE /\ pc' = "sym_return"
            /\ UNCHANGED <<rowSnaps, numLoads, callLog, numResident>>
    /\ UNCHANGED <<objVars, storage, todo, rets, saveLog, stderr,
                   rowFieldPaths, colFieldPaths, transpose, chunkTranspose,
                   startRowIndex, startColIndex, colSnaps, innerProductMat,
                   lcVars, icVars>>

\* The inner_product calls of lines 369-380, in loop order: for each row of
\* the batch its diagonal cell, then the cells right of it.
RECURSIVE DiagEvents(_, _, _)
DiagEvents(rows, startRow, i) ==
    IF i > Len(rows) THEN <<>>
    ELSE [j \in 1..(Len(rows) - i + 1) |->
             <<"ip", rows[i], rows[i + j - 1],
               startRow + i - 1, startRow + i + j - 2>>]
         \o DiagEvents(rows, startRow, i + 1)

\* Every cell of the square block is computed
SquareEventsWhole(rows, startRow) == BlockEvents(rows, rows, startRow, startRow)

\* The inner_product calls of the square block of a row batch (lines 369-380)
SquareEvents(rows, startRow) == DiagEvents(rows, startRow, 1)

\* The column loop starts over at the first column
FirstColIndexZero(endRow) == 0

\* Line 396: range(endRowIndex, numCols, numColsPerChunk) starts right of
\* the square block
FirstColIndex(endRow) == endRow

\* Lines 369-396: the square block of the resident rows and its progress
\* report; the column loop starts right after it.
SymDiag ==
    /\ pc = "sym_diag"
    /\ BlockDone(FillDiagBlock(innerProductMat, inner_product, rowSnaps,
                               startRowIndex, endRowIndex),
                 SquareEvents(rowSnaps, startRowIndex), endRowIndex, 371,
                 "sym_cols", FirstColIndex(endRowIndex))
    /\ UNCHANGED <<objVars, storage, saveLog, numLoads>>

\* Lines 395-404: the next column batch beyond the row batch is loaded, or
\* the column loop ends and the row loop moves on.
SymColLoop ==
    /\ pc = "sym_cols"
    /\ IF numColsPerChunk # 0 /\ startColIndex < numCols
       THEN /\ colSnaps' = PoolMapLoad(storage, colFieldPaths,
                                       startColIndex, endColIndex)
            /\ numLoads' = numLoads + (endColIndex - startColIndex)
            /\ callLog' = callLog \o LoadEvents(colFieldPaths, startColIndex,
                                                endColIndex)
            /\ numResident' = Max(numResident,
                                  Len(rowSnaps) + Len(colSnaps)
                                  + (endColIndex - startColIndex))
            /\ pc' = "sym_block"
            /\ UNCHANGED startRowIndex
       ELSE /\ startRowIndex' = NextStart(startRowIndex, numRowsPerChunk)
            /\ pc' = "sym_rows"
            /\ UNCHANGED <<colSnaps, numLoads, callLog, numResident>>
    /\ UNCHANGED <<objVars, storage, todo, rets, saveLog, stderr,
                   rowFieldPaths, colFieldPaths, transpose, chunkTranspose,
                   startColIndex, rowSnaps, innerProductMat, lcVars, icVars>>

\* Lines 408-417: the inner products of the rows with the column batch, then
\* the progress report.
SymBlock ==
    /\ pc = "sym_block"
    /\ BlockDone(FillBlock(innerProductMat, inner_product, rowSnaps, colSnaps,
                           startRowIndex, endRowIndex,
                           startColIndex, endColIndex),
                 BlockEvents(rowSnaps, colSnaps, startRowIndex, startColIndex),
                 endColIndex, 410, "sym_cols",
                 NextStart(startColIndex, numColsPerChunk))
    /\ UNCHANGED <<objVars, storage, saveLog, numLoads>>

\* Lines 419 and 294-299: the upper triangle is mirrored and returned.
SymReturn ==
    /\ pc = "sym_return"
    /\ Request.op = "sym"
    /\ Finish("none", 0, Symmetrize(innerProductMat), numLoads)
    /\ UNCHANGED <<objVars, storage, saveLog, numLoads>>

\* Line 419: the chunk routine returns the chunk as it filled it.
SymChunkReturn ==
    /\ pc = "sym_return"
    /\ Request.op = "symchunk"
    /\ Finish("none", 0, innerProductMat, numLoads)
    /\ UNCHANGED <<objVars, storage, saveLog, numLoads>>

-----------------------------------------------------------------------------
(* lin_combine and lin_combine_chunk *)

\* fieldCoeffMat.shape[0] and fieldCoeffMat.shape[1]
Shape0(m) == NumRowsOf(m)
Shape1(m) == NumColsOf(m)

\* fieldCoeffMat[:, start:end]
ColSlice(m, start, end) == [i \in 1..NumRowsOf(m) |-> SubSeq(m[i], start + 1, end)]

\* All of the budget but one field goes to the inputs
InputsPerChunkUncapped(budget, procs) == IF budget > 1 THEN budget - 1 ELSE 1

\* Lines 537-541: the input batch size, then the output batch size
InputsPerChunk(budget, procs) ==
    IF budget > procs THEN procs
    ELSE IF budget - procs - 1 > 1 THEN budget - procs - 1 ELSE 1

OutputsPerNode(budget, procs) == budget - InputsPerChunk(budget, procs)

\* Lines 634-640: the layer of one input for one output is created, or added
\* to the accumulator of that output.
AddLayer(layers, coeffs, batch, start, outputIndex, inputIndex) ==
    LET outputLayer == FieldMul(batch[BatchPos(inputIndex, start)],
                                coeffs[inputIndex + 1][outputIndex + 1])
    IN  IF outputIndex >= Len(layers)
        THEN Append(layers, outputLayer)
        ELSE [layers EXCEPT ![outputIndex + 1] = FieldAdd(@, outputLayer)]

\* Line 633: the inputs of the batch, in index order, for one output
RECURSIVE InputIndexLoop(_, _, _, _, _, _, _)
InputIndexLoop(layers, coeffs, batch, start, end, outputIndex, inputIndex) ==
    IF inputIndex >= end THEN layers
    ELSE InputIndexLoop(AddLayer(layers, coeffs, batch, start, outputIndex,
                                 inputIndex),
                        coeffs, batch, start, end, outputIndex, inputIndex + 1)

\* Line 632: the outputs of the batch of outputs, in index order
RECURSIVE OutputIndexLoop(_, _, _, _, _, _)
OutputIndexLoop(layers, coeffs, batch, start, end, outputIndex) ==
    IF outputIndex >= Shape1(coeffs) THEN layers
    ELSE OutputIndexLoop(InputIndexLoop(layers, coeffs, batch, start, end,
                                        outputIndex, start),
                         coeffs, batch, start, end, outputIndex + 1)

\* The accumulators as they are when the loops of lines 632-633 reach
\* (outputIndex, inputIndex): the outputs before outputIndex are done for the
\* whole batch, and the inputs of the batch before inputIndex for outputIndex.
LayersBefore(layers, coeffs, batch, start, end, outputIndex, inputIndex) ==
    InputIndexLoop(OutputIndexLoop(layers, ColSlice(coeffs, 0, outputIndex),
                                   batch, start, end, 0),
                   coeffs, batch, start, inputIndex, outputIndex, start)

\* Lines 632-640 in loop order, one event for each layer: the output (its
\* index in the whole call), the input, and whether the layer became the
\* accumulator (line 637, "new") or was added to it (line 640, "add").
LayerEvents(layers, coeffs, batch, start, end, startOutput) ==
    [k \in 1..(Shape1(coeffs) * (end - start)) |->
        LET outputIndex == (k - 1) \div (end - start)
            inputIndex == start + ((k - 1) % (end - start))
        IN  <<"layer", startOutput + outputIndex, inputIndex,
              IF outputIndex >= Len(LayersBefore(layers, coeffs, batch, start,
                                                 end, outputIndex, inputIndex))
              THEN "new" ELSE "add">>]

\* Lines 563-565: save_field(outputLayers[k], paths[k]) for the zipped pairs
RECURSIVE SaveAll(_, _, _, _)
SaveAll(st, layers, paths, k) ==
    IF k > Len(layers) \/ k > Len(paths) THEN st
    ELSE SaveAll([st EXCEPT ![paths[k]] = layers[k]], layers, paths, k + 1)

SaveEvents(call, layers, paths) ==
    [k \in 1..(IF Len(layers) < Len(paths) THEN Len(layers) ELSE Len(paths)) |->
        [call |-> call, path |-> paths[k], field |-> layers[k]]]

\* The same save_field calls as events of the running call
SaveCalls(layers, paths) ==
    [k \in 1..Len(SaveEvents(0, layers, paths)) |-> <<"save", paths[k]>>]

numInputFields == Len(inputFieldPaths)
numOutputFields == Len(outputFieldPaths)
endOutputIndex == EndIndex(numOutputFields, startOutputIndex, numOutputsPerNode)
endInputIndex == EndIndex(numInputFields, startInputIndex, numInputsPerChunk)

\* The coefficient matrix lin_combine_chunk works on (line 552)
chunkCoeffMat == ColSlice(fieldCoeffMat, startOutputIndex, endOutputIndex)

\* The input paths compared with the columns
TooManyInputsByColumns(numPaths, coeffMat) == numPaths > Shape1(coeffMat)

\* Lines 517 and 520: more paths than the matrix has rows, or columns
TooManyInputs(numPaths, coeffMat) == numPaths > Shape0(coeffMat)
TooManyOutputs(numPaths, coeffMat) == numPaths > Shape1(coeffMat)

\* Lines 506-545: lin_combine up to its output loop, for the arguments
\* (outputs, inputs, coeffMat).
EnterLinCombine(outputs, inputs_, coeffMat) ==
    IF save_field = "None"
    THEN Finish("UndefinedError", 507, NoMat, 0)
    ELSE IF TooManyInputs(Len(inputs_), coeffMat)
    THEN Finish("ValueError", 518, NoMat, 0)
    ELSE IF TooManyOutputs(Len(outputs), coeffMat)
    THEN Finish("ValueError", 521, NoMat, 0)
    ELSE IF OutputsPerNode(maxFields, numProcs) = 0
    THEN Finish("ValueError", 545, NoMat, 0)
    ELSE /\ outputFieldPaths' = outputs
         /\ inputFieldPaths' = inputs_
         /\ fieldCoeffMat' = coeffMat
         /\ numInputsPerChunk' = InputsPerChunk(maxFields, numProcs)
         /\ numOutputsPerNode' = OutputsPerNode(maxFields, numProcs)
         /\ startOutputIndex' = 0
         /\ startInputIndex' = 0
         /\ inputs' = <<>>
         /\ outputLayers' = <<>>
         /\ pc' = "lc_outputs"
         /\ UNCHANGED <<todo, rets, obsVars, ipVars, icVars>>

CallLinCombine ==
    /\ Calls("lin_combine")
    /\ numLoads' = 0
    /\ EnterLinCombine(Request.outputs, Request.inputs, Request.coeffs)
    /\ UNCHANGED <<objVars, storage, saveLog>>

\* Lines 545-553 and 597-607: the next batch of outputs enters
\* lin_combine_chunk, or lin_combine returns.
LinCombineOutputLoop ==
    /\ pc = "lc_outputs"
    /\ IF startOutputIndex < numOutputFields
       THEN IF Shape0(chunkCoeffMat) # numInputFields
            THEN Finish("AssertionError", 599, NoMat, numLoads)
            ELSE /\ outputLayers' = <<>>
                 /\ startInputIndex' = 0
                 /\ pc' = "lc_inputs"
                 /\ UNCHANGED <<todo, rets, obsVars, ipVars, outputFieldPaths,
                                inputFieldPaths, fieldCoeffMat,
                                numInputsPerChunk, numOutputsPerNode,
                                startOutputIndex, inputs, icVars>>
       ELSE Finish("none", 0, NoMat, numLoads)
    /\ UNCHANGED <<objVars, storage, saveLog, numLoads>>

\* Lines 611-623: the next batch of inputs is loaded, or the chunk returns
\* its accumulators.  While pool.map builds the new list, inputs still holds
\* the batch loaded before.
LinCombineInputLoop ==
    /\ pc = "lc_inputs"
    /\ IF startInputIndex < numInputFields
       THEN IF Raises("load", inputFieldPaths, startInputIndex, endInputIndex)
            THEN /\ Finish("IOError", 621, NoMat, numLoads)
                 /\ UNCHANGED numLoads
            ELSE /\ inputs' = PoolMapLoad(storage, inputFieldPaths,
                                          startInputIndex, endInputIndex)
                 /\ numLoads' = numLoads + (endInputIndex - startInputIndex)
                 /\ callLog' = callLog \o LoadEvents(inputFieldPaths,
                                                     startInputIndex,
                                                     endInputIndex)
                 /\ numResident' = Max(numResident,
                                       Len(inputs) + Len(outputLayers)
                                       + (endInputIndex - startInputIndex))
                 /\ pc' = "lc_layers"
                 /\ UNCHANGED <<todo, rets, stderr, ipVars, outputFieldPaths,
                                inputFieldPaths, fieldCoeffMat,
                                numInputsPerChunk, numOutputsPerNode,
                                startOutputIndex, startInputIndex,
                                outputLayers, icVars>>
       ELSE /\ pc' = "lc_save"
            /\ UNCHANGED <<todo, rets, numLoads, obsVars, ipVars, lcVars,
                           icVars>>
    /\ UNCHANGED <<objVars, storage, saveLog>>

\* The most Field objects referenced at once in the loops of lines 632-640:
\* the loaded inputs, the accumulators there are, and the layer outputLayer
\* while it is not yet an accumulator or added to one.  In the first input
\* batch the first layer of an output becomes its accumulator; every other
\* layer is a temporary next to all the accumulators.
LayersPeak(numInputs, numLayersBefore, numOutputs) ==
    numInputs + (IF numLayersBefore = 0 /\ numInputs = 1
                 THEN numOutputs ELSE numOutputs + 1)

\* Lines 632-640: the layers of the loaded inputs go into the accumulators.
\* In the first input batch the layer of input 0 creates each accumulator;
\* every other layer is added to one.
LinCombineLayers ==
    /\ pc = "lc_layers"
    /\ IF Raises("mul", inputFieldPaths, startInputIndex, endInputIndex)
       THEN Finish("ArithmeticError", 634, NoMat, numLoads)
       ELSE IF Raises("add", inputFieldPaths,
                      Max(startInputIndex, 1), endInputIndex)
       THEN Finish("ArithmeticError", 640, NoMat, numLoads)
       ELSE /\ outputLayers' = OutputIndexLoop(outputLayers, chunkCoeffMat,
                                               inputs, startInputIndex,
                                               endInputIndex, 0)
            /\ numResident' = Max(numResident,
                                  LayersPeak(Len(inputs), Len(outputLayers),
                                             Shape1(chunkCoeffMat)))
            /\ callLog' = callLog \o LayerEvents(outputLayers, chunkCoeffMat,
                                                 inputs, startInputIndex,
                                                 endInputIndex,
                                                 startOutputIndex)
            /\ startInputIndex' = NextStart(startInputIndex,
                                            numInputsPerChunk)
            /\ pc' = "lc_inputs"
            /\ UNCHANGED <<todo, rets, stderr, ipVars,
                           outputFieldPaths, inputFieldPaths, fieldCoeffMat,
                           numInputsPerChunk, numOutputsPerNode,
                           startOutputIndex, inputs, icVars>>
    /\ UNCHANGED <<objVars, storage, saveLog, numLoads>>

\* The output paths are taken from the first one for every batch
batchPathsFromStart ==
    SubSeq(outputFieldPaths, 1, endOutputIndex - startOutputIndex)

\* The paths of the output batch (line 565)
batchPaths == SubSeq(outputFieldPaths, startOutputIndex + 1, endOutputIndex)

\* The save_field calls of the batch that were made when one of them raised
\* (lines 563-565): pool.map hands every pair to the pool and raises as soon
\* as the failing call's result arrives.  The calls for the pairs before the
\* failing one on a pool of one worker were made by then; any of the other
\* calls may have been made.
SavedBeforeRaise(paths) ==
    LET p == CHOOSE k \in 1..Len(paths) : paths[k] = fault.path
    IN  {S \in SUBSET ((1..Len(paths)) \ {p}) :
            numProcs = 1 => \A k \in 1..(p - 1) : k \in S}

\* Lines 563-565: the finished outputs of the batch are saved.
LinCombineSave ==
    /\ pc = "lc_save"
    /\ IF Raises("save", batchPaths, 0, Len(batchPaths))
       THEN \E S \in SavedBeforeRaise(batchPaths) :
                LET made == SelectSeq(
                                SaveEvents(Len(rets) + 1, outputLayers,
                                           batchPaths),
                                LAMBDA e : \E k \in S : batchPaths[k] = e.path)
                    log == saveLog \o made
                IN  /\ storage' =
                        [h \in DOMAIN storage |->
                            IF \E k \in S : batchPaths[k] = h
                            THEN outputLayers[CHOOSE k \in S :
                                                 batchPaths[k] = h]
                            ELSE storage[h]]
                    /\ saveLog' = log
                    /\ FinishSaved("IOError", 563, NoMat, numLoads, log)
       ELSE /\ storage' = SaveAll(storage, outputLayers, batchPaths, 1)
            /\ saveLog' = saveLog \o SaveEvents(Len(rets) + 1, outputLayers,
                                                batchPaths)
            /\ callLog' = callLog \o SaveCalls(outputLayers, batchPaths)
            /\ startOutputIndex' = NextStart(startOutputIndex,
                                             numOutputsPerNode)
            /\ pc' = "lc_outputs"
            /\ UNCHANGED <<todo, rets, stderr, numResident, ipVars,
                           outputFieldPaths,
                           inputFieldPaths, fieldCoeffMat, numInputsPerChunk,
                           numOutputsPerNode, startInputIndex, inputs,
                           outputLayers, icVars>>
    /\ UNCHANGED <<objVars, numLoads>>

-----------------------------------------------------------------------------
(* _compute_modes *)

\* modePath % modeNum
ModePath(modePath, modeNum) == <<modePath, modeNum>>

\* The columns of the list taken in ascending order
SelectColumnsSorted(m, list) ==
    LET Kth(p) ==
            CHOOSE v \in {list[q] : q \in DOMAIN list} :
                /\ Cardinality({q \in DOMAIN list : list[q] < v}) < p
                /\ p <= Cardinality({q \in DOMAIN list : list[q] <= v})
    IN  [i \in 1..NumRowsOf(m) |->
            [p \in 1..Len(list) |->
                m[i][(IF Kth(p) < 0 THEN Kth(p) + NumColsOf(m) ELSE Kth(p)) + 1]]]

\* fieldCoeffMat[:, modeNumListFromZero]; a negative index counts from the
\* last column
SelectColumns(m, list) ==
    [i \in 1..NumRowsOf(m) |->
        [p \in 1..Len(list) |->
            m[i][(IF list[p] < 0 THEN list[p] + NumColsOf(m) ELSE list[p]) + 1]]]

\* The check of line 472 alone
ModeNumCheckNoLower(modeNumList, indexFrom, numColumns, p) ==
    IF \E q \in DOMAIN modeNumList : modeNumList[q] - indexFrom >= numColumns
    THEN 473 ELSE 0

\* Lines 468-474: the exception line of the first mode number out of range,
\* 0 when every mode number is in range.
RECURSIVE ModeNumCheck(_, _, _, _)
ModeNumCheck(modeNumList, indexFrom, numColumns, p) ==
    IF p > Len(modeNumList) THEN 0
    ELSE IF modeNumList[p] < indexFrom THEN 470
    ELSE IF modeNumList[p] - indexFrom >= numColumns THEN 473
    ELSE ModeNumCheck(modeNumList, indexFrom, numColumns, p + 1)

\* The number of distinct mode numbers of a list
NumModesDistinct(modeNumList) ==
    Cardinality({modeNumList[p] : p \in DOMAIN modeNumList})

\* Lines 461-464: the number of modes that is compared with the number of
\* snapshots
NumModes(modeNumList) == Len(modeNumList)

\* Lines 453-480
CallModes ==
    /\ Calls("modes")
    /\ numLoads' = 0
    /\ LET modeNumList == Request.modeNumList
           snapPaths == Request.snapPaths
           coeffMat == Request.coeffs
           indexFrom == Request.indexFrom
           badLine == ModeNumCheck(modeNumList, indexFrom, Shape1(coeffMat), 1)
       IN  IF save_field = "None"
           THEN Finish("NameError", 454, NoMat, 0)
           ELSE IF NumModes(modeNumList) > Len(snapPaths)
           THEN Finish("ValueError", 465, NoMat, 0)
           ELSE IF badLine # 0
           THEN Finish("ValueError", badLine, NoMat, 0)
           ELSE EnterLinCombine(
                    [p \in 1..Len(modeNumList) |->
                        ModePath(Request.modePath, modeNumList[p])],
                    snapPaths,
                    SelectColumns(coeffMat,
                        [p \in 1..Len(modeNumList) |->
                            modeNumList[p] - indexFrom]))
    /\ UNCHANGED <<objVars, storage, saveLog>>

-----------------------------------------------------------------------------
(* idiot_check *)

\* The classes a test object may be of: "linear" implements * and + as the
\* engine expects; the others break one of the two.
FieldKinds ==
    {"linear", "mulInPlace", "mulWrong", "addInPlace", "addFirst",
     "addNegated"}

\* obj * factor: the object returned
MulResult(kind, obj, factor) ==
    IF kind = "mulWrong" THEN obj ELSE FieldMul(obj, factor)

\* obj * factor: the operand after the multiplication
MulOperand(kind, obj, factor) ==
    IF kind = "mulInPlace" THEN FieldMul(obj, factor) ELSE obj

\* a + b: the object returned
AddResult(kind, a, b) ==
    IF kind = "addFirst" THEN a
    ELSE IF kind = "addNegated" THEN FieldMul(FieldAdd(a, b), -1)
    ELSE FieldAdd(a, b)

\* a + b: the left operand after the addition
AddOperand(kind, a, b) ==
    IF kind = "addInPlace" THEN FieldAdd(a, b) ELSE a

fieldKind == Request.fieldKind

\* Line 72
factor == 2

\* Line 63: the fields of the model have integer entries, so a difference is
\* above the tolerance exactly when it is not zero.
AboveTol(x) == x # 0

\* Taken for the magnitude of the product
MultExpectedUnsquared(mag2) == mag2 * factor

\* Line 75: objCopyMag2*factor**2
MultExpected(mag2) == mag2 * factor * factor

\* Line 82: objCopyMag2*4
AddExpected(mag2) == mag2 * 4

\* Line 89: objCopyMag2*(factor+1)**2
ComboExpected(mag2) == mag2 * (factor + 1) * (factor + 1)

\* The original object is never looked at again
ModifiedNever(obj, mag2) == FALSE

\* Lines 78, 85 and 93: abs(inner_product(testObj, testObj) - objCopyMag2) > tol
Modified(obj, mag2) ==
    AboveTol(InnerProduct(inner_product, obj, obj) - mag2)

IdiotReq(obj, kind, v) ==
    [op |-> "idiot_check", testObj |-> obj, fieldKind |-> kind, verbose |-> v]

\* Lines 63-70: the test object is there (NoField: None was passed), then the
\* magnitude of its copy.
CallIdiotCheck ==
    /\ Calls("idiot_check")
    /\ numLoads' = 0
    /\ IF Request.testObj = NoField
       THEN Finish("RuntimeError", 67, NoMat, 0)
       ELSE IF inner_product = "None"
       THEN Finish("TypeError", 70, NoMat, 0)
       ELSE /\ testObj' = Request.testObj
            /\ objCopyMag2' = InnerProduct(inner_product, Request.testObj,
                                           Request.testObj)
            /\ objResult' = NoField
            /\ pc' = "ic_mult"
            /\ UNCHANGED <<todo, rets, obsVars, ipVars, lcVars>>
    /\ UNCHANGED <<objVars, storage, saveLog>>

\* One arithmetic statement of idiot_check: the result is bound, the operand
\* is what the operation left of it.
IdiotStep(at, result, operand, next) ==
    /\ pc = at
    /\ objResult' = result
    /\ testObj' = operand
    /\ pc' = next
    /\ UNCHANGED <<objVars, storage, todo, rets, saveLog, numLoads, obsVars,
                   ipVars, lcVars, objCopyMag2>>

\* The two checks after an arithmetic statement: the magnitude of the
\* result, then the magnitude of the original object.
IdiotCheck(at, expected, lineResult, lineOriginal, next) ==
    /\ pc = at
    /\ IF AboveTol(InnerProduct(inner_product, objResult, objResult)
                   - expected)
       THEN Finish("ValueError", lineResult, NoMat, 0)
       ELSE IF Modified(testObj, objCopyMag2)
       THEN Finish("ValueError", lineOriginal, NoMat, 0)
       ELSE /\ pc' = next
            /\ UNCHANGED <<todo, rets, obsVars, ipVars, lcVars, icVars>>
    /\ UNCHANGED <<objVars, storage, saveLog, numLoads>>

\* Lines 72-73: objMult = testObj * factor
IdiotMult ==
    IdiotStep("ic_mult", MulResult(fieldKind, testObj, factor),
              MulOperand(fieldKind, testObj, factor), "ic_mult_check")

\* Lines 75-79
IdiotMultCheck ==
    IdiotCheck("ic_mult_check", MultExpected(objCopyMag2), 76, 79, "ic_add")

\* Line 81: objAdd = testObj + testObj
IdiotAdd ==
    IdiotStep("ic_add", AddResult(fieldKind, testObj, testObj),
              AddOperand(fieldKind, testObj, testObj), "ic_add_check")

\* Lines 82-86
IdiotAddCheck ==
    IdiotCheck("ic_add_check", AddExpected(objCopyMag2), 83, 86, "ic_combo")

\* Line 88: objAddMult = testObj*factor + testObj; the sum's left operand is
\* the product, a temporary.
IdiotCombo ==
    LET operand == MulOperand(fieldKind, testObj, factor)
    IN  IdiotStep("ic_combo",
                  AddResult(fieldKind, MulResult(fieldKind, testObj, factor),
                            operand),
                  operand, "ic_combo_check")

\* Lines 89-94
IdiotComboCheck ==
    IdiotCheck("ic_combo_check", ComboExpected(objCopyMag2), 91, 94,
               "ic_return")

\* Lines 99-100: the check passed.
IdiotReturn ==
    /\ pc = "ic_return"
    /\ Finish("none", 0, NoMat, 0)
    /\ UNCHANGED <<objVars, storage, saveLog, numLoads>>

-----------------------------------------------------------------------------
(* The requests of lin_combine, _compute_modes and idiot_check *)

\* The coefficient matrices: a different coefficient in every cell, zero and
\* negative coefficients among them.
CoeffMat(nr, nc) == [i \in 1..nr |-> [j \in 1..nc |-> (i - 1) * MaxLen + j - 2]]

CoeffMats == {CoeffMat(nr, nc) : nr \in 1..MaxLen, nc \in 1..MaxLen}

OutputSeqs == {[k \in 1..n |-> <<"out", k>>] : n \in 1..MaxLen}

LinCombineReq(outputs, inputs_, coeffMat) ==
    [op |-> "lin_combine", outputs |-> outputs, inputs |-> inputs_,
     coeffs |-> coeffMat]

ModesReq(modeNumList, modePath, snapPaths, coeffMat, indexFrom) ==
    [op |-> "modes", modeNumList |-> modeNumList, modePath |-> modePath,
     snapPaths |-> snapPaths, coeffs |-> coeffMat, indexFrom |-> indexFrom]

LinCombineScenarios ==
    {<<LinCombineReq(O, I, M)>> :
        O \in OutputSeqs, I \in HandleSeqs, M \in CoeffMats}

\* The scenarios with a failing pluggable operation: lin_combine with as many
\* rows as inputs and as many columns as outputs.
FaultScenarios ==
    {<<LinCombineReq(O, HandleSeq(1, n), CoeffMat(n, Len(O)))>> :
        O \in OutputSeqs, n \in 1..MaxLen}

\* The mode number lists: n mode numbers from any first one, repeated,
\* descending or in steps of two, going round the mode numbers.
ModeNumList(first, n, step) ==
    [k \in 1..n |-> (first + (k - 1) * step) % (MaxLen + 2)]

ModeNumLists ==
    {ModeNumList(first, n, step) :
        first \in ModeNums, n \in 1..MaxLen, step \in {0, 2, MaxLen + 1}}

\* Every mode of the matrix, in order
AllModes(coeffMat, indexFrom) ==
    [p \in 1..NumColsOf(coeffMat) |-> indexFrom + p - 1]

\* The scenarios of _compute_modes: some modes are computed, then all of
\* them from the same snapshots and matrix.
ModesScenarios ==
    {<<ModesReq(L, "mode", HandleSeq(1, n), M, indexFrom),
       ModesReq(AllModes(M, indexFrom), "mode", HandleSeq(1, n), M, indexFrom)>> :
        L \in ModeNumLists, n \in 1..MaxLen, M \in CoeffMats,
        indexFrom \in {0, 1}}

\* The test objects: every vector with coordinates up to MaxCoord, and None
TestObjs ==
    {<<a, b>> : a \in 0..MaxCoord, b \in 0..MaxCoord} \cup {NoField}

IdiotScenarios ==
    {<<IdiotReq(obj, kind, v)>> :
        obj \in TestObjs, kind \in FieldKinds, v \in BOOLEAN}

-----------------------------------------------------------------------------
(* The object after construction, before the caller's first call *)

InitObject ==
    /\ maxFields \in 1..MaxFieldsBound
    /\ chunkSizes \in ChunkSizer(maxFields)
    /\ storage = InitStorage
    /\ rets = <<>>
    /\ saveLog = <<>>
    /\ numLoads = 0
    /\ callLog = <<>>
    /\ stderr = <<>>
    /\ numResident = 0
    /\ testObj = NoField
    /\ objCopyMag2 = 0
    /\ objResult = NoField
    /\ pc = "idle"
    /\ rowFieldPaths = <<>>
    /\ colFieldPaths = <<>>
    /\ transpose = FALSE
    /\ chunkTranspose = FALSE
    /\ startRowIndex = 0
    /\ startColIndex = 0
    /\ rowSnaps = <<>>
    /\ colSnaps = <<>>
    /\ innerProductMat = NoMat
    /\ outputFieldPaths = <<>>
    /\ inputFieldPaths = <<>>
    /\ fieldCoeffMat = NoMat
    /\ numInputsPerChunk = 0
    /\ numOutputsPerNode = 0
    /\ startOutputIndex = 0
    /\ startInputIndex = 0
    /\ inputs = <<>>
    /\ outputLayers = <<>>

\* The inner-product engines: any budget, any inner product or none, one
\* scenario.
InitIP ==
    /\ InitObject
    /\ numProcs = 1
    /\ inner_product \in IPKinds \cup {"None"}
    /\ save_field = "None"
    /\ fault = NoFault
    /\ todo \in IPScenarios

\* lin_combine: any budget, any pool size, with and without save_field.
InitLinCombine ==
    /\ InitObject
    /\ numProcs \in 1..MaxProcs
    /\ inner_product = "None"
    /\ save_field \in {"save", "None"}
    /\ fault = NoFault
    /\ todo \in LinCombineScenarios

\* lin_combine with a pluggable operation that raises.
InitFaults ==
    /\ InitObject
    /\ numProcs \in 1..MaxProcs
    /\ inner_product = "None"
    /\ save_field = "save"
    /\ fault \in Faults
    /\ todo \in FaultScenarios

\* _compute_modes: any budget, with and without save_field.
InitModes ==
    /\ InitObject
    /\ numProcs = 1
    /\ inner_product = "None"
    /\ save_field \in {"save", "None"}
    /\ fault = NoFault
    /\ todo \in ModesScenarios

\* idiot_check: any inner product or none, any test object of any class.
InitIdiot ==
    /\ InitObject
    /\ numProcs = 1
    /\ inner_product \in IPKinds \cup {"None"}
    /\ save_field = "None"
    /\ fault = NoFault
    /\ todo \in IdiotScenarios

NextIP ==
    \/ CallRect
    \/ RectRowLoop
    \/ RectColLoop
    \/ RectBlock
    \/ RectReturn
    \/ CallSym
    \/ CallSymChunk
    \/ SymRowLoop
    \/ SymDiag
    \/ SymColLoop
    \/ SymBlock
    \/ SymReturn
    \/ SymChunkReturn

SpecIP == InitIP /\ [][NextIP]_vars

NextLinCombine ==
    \/ CallLinCombine
    \/ LinCombineOutputLoop
    \/ LinCombineInputLoop
    \/ LinCombineLayers
    \/ LinCombineSave

SpecLinCombine == InitLinCombine /\ [][NextLinCombine]_vars

SpecFaults == InitFaults /\ [][NextLinCombine]_vars

NextModes ==
    \/ CallModes
    \/ LinCombineOutputLoop
    \/ LinCombineInputLoop
    \/ LinCombineLayers
    \/ LinCombineSave

SpecModes == InitModes /\ [][NextModes]_vars

NextIdiot ==
    \/ CallIdiotCheck
    \/ IdiotMult
    \/ IdiotMultCheck
    \/ IdiotAdd
    \/ IdiotAddCheck
    \/ IdiotCombo
    \/ IdiotComboCheck
    \/ IdiotReturn

SpecIdiot == InitIdiot /\ [][NextIdiot]_vars

-----------------------------------------------------------------------------
(* Properties of the inner-product engines *)

Fields == {InitStorage[h] : h \in SnapHandles}

\* The completed calls of one method that returned normally
Returned(op) ==
    {k \in DOMAIN rets : rets[k].req.op = op /\ rets[k].err = "none"}

\* The matrix has the shape of the arguments and cell [i][j] is the inner
\* product of the i-th row field with the j-th column field, in this order.
EntriesMatchArguments(m, R, C) ==
    /\ NumRowsOf(m) = Len(R)
    /\ \A i \in 1..Len(R) :
        /\ Len(m[i]) = Len(C)
        /\ \A j \in 1..Len(C) :
            m[i][j] = InnerProduct(inner_product, load_field(InitStorage, R[i]),
                                   load_field(InitStorage, C[j]))

\* C1: compute_inner_product_mat(R, C) returns a len(R) x len(C) matrix whose
\* entry [i][j] is inner_product(load(R[i]), load(C[j])), for every inner
\* product (symmetric or not) and whichever of R and C is longer.
C1_EntriesAreInnerProducts ==
    \A k \in Returned("rect") :
        EntriesMatchArguments(rets[k].mat, rets[k].req.rows, rets[k].req.cols)

\* The inner product gives the same scalar for (a, b) and (b, a) on every
\* field of the storage.
SymmetricInnerProduct ==
    \A a \in Fields, b \in Fields :
        InnerProduct(inner_product, a, b) = InnerProduct(inner_product, b, a)

\* A symmetric call followed by the rectangular call on the same handles
SymThenRect ==
    /\ Len(rets) = 2
    /\ rets[1].req.op = "sym" /\ rets[1].err = "none"
    /\ rets[2].req.op = "rect" /\ rets[2].err = "none"
    /\ rets[2].req.rows = rets[1].req.rows
    /\ rets[2].req.cols = rets[1].req.rows

\* C2 as stated: compute_symmetric_inner_product_mat(H) returns the same
\* matrix as compute_inner_product_mat(H, H), for every inner product.
C2_SymEqualsRectAnyIP ==
    SymThenRect => rets[1].mat = rets[2].mat

\* C2 amended: compute_symmetric_inner_product_mat(H) returns the same matrix
\* as compute_inner_product_mat(H, H), entry by entry, whenever the inner
\* product is symmetric in its two arguments.
C2_SymEqualsRect ==
    (SymThenRect /\ SymmetricInnerProduct) => rets[1].mat = rets[2].mat

C2_Witness ==
    /\ SymThenRect
    /\ SymmetricInnerProduct
    /\ Len(rets[1].req.rows) >= 2
    /\ rets[1].req.rows[1] # rets[1].req.rows[2]
    /\ numRowsPerChunk < Len(rets[1].req.rows)

\* C3: the matrix compute_symmetric_inner_product_mat returns is exactly
\* symmetric, M[i][j] = M[j][i], for every handle sequence, chunk size and
\* inner product.
C3_SymmetricResult ==
    \A k \in Returned("sym") :
        LET m == rets[k].mat
        IN  /\ NumRowsOf(m) = NumColsOf(m)
            /\ \A i \in 1..NumRowsOf(m), j \in 1..NumRowsOf(m) :
                m[i][j] = m[j][i]

C3_Witness ==
    /\ Returned("sym") # {}
    /\ ~SymmetricInnerProduct
    /\ Len(rets[1].req.rows) >= 2
    /\ rets[1].req.rows[1] # rets[1].req.rows[2]
    /\ rets[1].mat[1][2] # 0

\* What compute_inner_product_mat computes when each collection is one
\* batch: no batching at all.
Unbatched(R, C) ==
    LET swap == Len(R) > Len(C)
        R1 == IF swap THEN C ELSE R
        C1 == IF swap THEN R ELSE C
    IN  RectResult(FillBlock(Zeros(Len(R1), Len(C1)), inner_product,
                             PoolMapLoad(InitStorage, R1, 0, Len(R1)),
                             PoolMapLoad(InitStorage, C1, 0, Len(C1)),
                             0, Len(R1), 0, Len(C1)),
                   FALSE, swap)

\* C4: for fixed R, C and inner product the matrix compute_inner_product_mat
\* returns is the same under every pair of chunk sizes: it is the matrix
\* computed without batching.
C4_BatchingInvariant ==
    \A k \in Returned("rect") :
        rets[k].mat = Unbatched(rets[k].req.rows, rets[k].req.cols)

C4_Witness ==
    /\ Len(rets) = 1
    /\ Returned("rect") = {1}
    /\ Len(rets[1].req.rows) = 3
    /\ Len(rets[1].req.cols) = 2
    /\ chunkSizes = <<1, 2>>
    /\ rets[1].req.rows[1] # rets[1].req.rows[3]
    /\ rets[1].loads = 2 + 2 * 3

-----------------------------------------------------------------------------
(* Properties of lin_combine and _compute_modes *)

\* sum over i of load(I[i]) * M[i][j], the direct weighted sum
RECURSIVE WeightedSum(_, _, _, _)
WeightedSum(I, M, j, n) ==
    IF n = 1 THEN FieldMul(load_field(InitStorage, I[1]), M[1][j])
    ELSE FieldAdd(WeightedSum(I, M, j, n - 1),
                  FieldMul(load_field(InitStorage, I[n]), M[n][j]))

\* The completed calls of one method
CallsOf(op) == {k \in DOMAIN rets : rets[k].req.op = op}

\* The save_field calls of the k-th call, in order
SavesOf(k) == SelectSeq(saveLog, LAMBDA e : e.call = k)

\* C5: for every input handle sequence I, coefficient matrix M with
\* M.rows = len(I), output handle sequence of length k <= M.cols and every
\* memory budget, lin_combine returns and the field saved at output handle
\* number j is the sum over i of load(I[i]) * M[i][j].
C5_OutputsAreWeightedSums ==
    \A k \in CallsOf("lin_combine") :
        LET req == rets[k].req
        IN  (/\ save_field # "None"
             /\ Shape0(req.coeffs) = Len(req.inputs)
             /\ Len(req.outputs) <= Shape1(req.coeffs))
            => /\ rets[k].err = "none"
               /\ \A j \in 1..Len(req.outputs) :
                    storage[req.outputs[j]] =
                        WeightedSum(req.inputs, req.coeffs, j, Len(req.inputs))

\* Every requested mode number is at least indexFrom and within the columns
\* of the coefficient matrix.
ValidModeNums(req) ==
    \A p \in DOMAIN req.modeNumList :
        /\ req.modeNumList[p] >= req.indexFrom
        /\ req.modeNumList[p] - req.indexFrom < Shape1(req.coeffs)

\* C6: for every list [m_1..m_k] of valid mode numbers, in any order,
\* _compute_modes writes exactly k outputs, the p-th at modePath % m_p, equal
\* to the linear combination of the snapshots with column (m_p - indexFrom)
\* of the coefficient matrix.
C6_ModesWritten ==
    \A k \in CallsOf("modes") :
        LET req == rets[k].req
            saves == SavesOf(k)
        IN  (/\ save_field # "None"
             /\ ValidModeNums(req)
             /\ Len(req.modeNumList) <= Len(req.snapPaths)
             /\ Shape0(req.coeffs) = Len(req.snapPaths))
            => /\ rets[k].err = "none"
               /\ Len(saves) = Len(req.modeNumList)
               /\ \A p \in 1..Len(saves) :
                    /\ saves[p].path = <<req.modePath, req.modeNumList[p]>>
                    /\ saves[p].field =
                        WeightedSum(req.snapPaths, req.coeffs,
                                    req.modeNumList[p] - req.indexFrom + 1,
                                    Len(req.snapPaths))

\* C7: the mode written for a mode number does not depend on the other mode
\* numbers of the request: whenever a mode is written, by the call for some
\* modes or by the call for all of them, it is the same field.
C7_ModeIndependentOfRequest ==
    \A a \in DOMAIN saveLog, b \in DOMAIN saveLog :
        saveLog[a].path = saveLog[b].path => saveLog[a].field = saveLog[b].field

C7_Witness ==
    /\ Len(rets) = 2
    /\ rets[1].err = "none" /\ rets[2].err = "none"
    /\ Len(rets[1].req.modeNumList) = 2
    /\ rets[1].req.modeNumList[1] > rets[1].req.modeNumList[2]
    /\ Len(rets[2].req.modeNumList) = 3
    /\ rets[1].saves = 2 /\ rets[2].saves = 3
    /\ \E a \in DOMAIN saveLog, b \in DOMAIN saveLog :
        /\ saveLog[a].call = 1 /\ saveLog[b].call = 2
        /\ saveLog[a].path = saveLog[b].path
    /\ \E a \in DOMAIN saveLog, b \in DOMAIN saveLog :
        saveLog[a].field # saveLog[b].field

\* The call made no load and no save, and storage is as before the calls.
NoIO(k) ==
    /\ rets[k].loads = 0
    /\ rets[k].saves = 0
    /\ k = 1 => storage = InitStorage

\* C8 as stated: _compute_modes fails with ValueError whenever a requested
\* mode number is below indexFrom or beyond the matrix width, before any load
\* or save.
C8_BadModeNumIsValueErrorAlways ==
    \A k \in CallsOf("modes") :
        ~ValidModeNums(rets[k].req) => rets[k].err = "ValueError" /\ NoIO(k)

\* C8 amended: on an object constructed with save_field, _compute_modes fails
\* with ValueError whenever a requested mode number is below indexFrom or has
\* (mode number - indexFrom) >= the number of columns, before any load or
\* save.
C8_BadModeNumIsValueError ==
    \A k \in CallsOf("modes") :
        (save_field # "None" /\ ~ValidModeNums(rets[k].req))
        => rets[k].err = "ValueError" /\ NoIO(k)

C8_Witness ==
    /\ Len(rets) = 1
    /\ rets[1].req.op = "modes"
    /\ save_field # "None"
    /\ rets[1].req.indexFrom = 1
    /\ rets[1].req.modeNumList[1] >= 1
    /\ Len(rets[1].req.modeNumList) > 1
    /\ rets[1].req.modeNumList[2] = 0
    /\ Len(rets[1].req.modeNumList) <= Len(rets[1].req.snapPaths)
    /\ rets[1].err = "ValueError"
    /\ rets[1].line = 470

\* C9 as stated: _compute_modes rejects a request on the mode-count check
\* exactly when the number of distinct requested mode numbers exceeds the
\* number of snapshot handles.
C9_CountCheckOnDistinctModes ==
    \A k \in CallsOf("modes") :
        save_field # "None"
        => ((rets[k].err = "ValueError" /\ rets[k].line = 465)
            <=> NumModesDistinct(rets[k].req.modeNumList)
                    > Len(rets[k].req.snapPaths))

\* C9 amended: on an object constructed with save_field, _compute_modes
\* rejects a request on the mode-count check exactly when the length of the
\* mode number list, repeated numbers counted each time, exceeds the number
\* of snapshot handles.
C9_CountCheckOnListLength ==
    \A k \in CallsOf("modes") :
        save_field # "None"
        => ((rets[k].err = "ValueError" /\ rets[k].line = 465)
            <=> Len(rets[k].req.modeNumList) > Len(rets[k].req.snapPaths))

C9_Witness ==
    /\ Len(rets) = 1
    /\ rets[1].req.op = "modes"
    /\ save_field # "None"
    /\ Len(rets[1].req.modeNumList) = 2
    /\ rets[1].req.modeNumList[1] = rets[1].req.modeNumList[2]
    /\ Len(rets[1].req.snapPaths) = 1
    /\ ValidModeNums(rets[1].req)
    /\ rets[1].err = "ValueError"
    /\ rets[1].line = 465

\* More input paths than rows, or more output paths than columns
TooManyPaths(req) ==
    \/ Len(req.inputs) > Shape0(req.coeffs)
    \/ Len(req.outputs) > Shape1(req.coeffs)

\* C10 as stated: lin_combine fails with ValueError whenever
\* len(inputHandles) > rows or len(outputHandles) > cols, before any load or
\* save, storage unchanged.
C10_TooManyPathsIsValueErrorAlways ==
    \A k \in CallsOf("lin_combine") :
        TooManyPaths(rets[k].req) => rets[k].err = "ValueError" /\ NoIO(k)

\* C10 amended: on an object constructed with save_field, lin_combine fails
\* with ValueError whenever len(inputHandles) > rows or len(outputHandles) >
\* cols, before any load or save, storage unchanged.
C10_TooManyPathsIsValueError ==
    \A k \in CallsOf("lin_combine") :
        (save_field # "None" /\ TooManyPaths(rets[k].req))
        => rets[k].err = "ValueError" /\ NoIO(k)

C10_Witness ==
    /\ Len(rets) = 1
    /\ rets[1].req.op = "lin_combine"
    /\ save_field # "None"
    /\ Len(rets[1].req.inputs) > Shape0(rets[1].req.coeffs)
    /\ Len(rets[1].req.outputs) <= Shape1(rets[1].req.coeffs)
    /\ maxFields > 1
    /\ rets[1].err = "ValueError"
    /\ rets[1].line = 518

-----------------------------------------------------------------------------
(* Fewer handles than the coefficient matrix has rows or columns *)

\* Fewer input paths than rows, or fewer output paths than columns, and
\* neither more than the matrix has.
FewerPaths(req) ==
    /\ Len(req.inputs) <= Shape0(req.coeffs)
    /\ Len(req.outputs) <= Shape1(req.coeffs)
    /\ \/ Len(req.inputs) < Shape0(req.coeffs)
       \/ Len(req.outputs) < Shape1(req.coeffs)

\* C11: when lin_combine is given fewer input handles than the coefficient
\* matrix has rows, or fewer output handles than it has columns, the call
\* does not fail and every supplied output handle is saved with the
\* combination of the supplied inputs by the leading rows and columns (here
\* for every budget of at least two fields).
C11_ExcessRowsAndColumnsIgnored ==
    \A k \in CallsOf("lin_combine") :
        LET req == rets[k].req
        IN  (save_field # "None" /\ maxFields > 1 /\ FewerPaths(req))
            => /\ rets[k].err = "none"
               /\ \A j \in 1..Len(req.outputs) :
                    storage[req.outputs[j]] =
                        WeightedSum(req.inputs, req.coeffs, j, Len(req.inputs))

-----------------------------------------------------------------------------
(* Error handling of the inner-product engines *)

\* rows is not the leading part of cols
NotLeadingPart(R, C) ==
    ~(Len(R) <= Len(C) /\ \A i \in 1..Len(R) : R[i] = C[i])

\* C12: _compute_upper_triangular_inner_product_chunk(rowHandles, colHandles)
\* fails with ValueError whenever rowHandles is not equal to the first
\* len(rowHandles) entries of colHandles (also when rowHandles is the longer
\* list), before any field is loaded.
C12_PrefixCheckedBeforeLoads ==
    \A k \in CallsOf("symchunk") :
        NotLeadingPart(rets[k].req.rows, rets[k].req.cols)
        => /\ rets[k].err = "ValueError"
           /\ rets[k].loads = 0
           /\ rets[k].calls = <<>>

C12_Witness ==
    /\ Len(rets) = 1
    /\ rets[1].req.op = "symchunk"
    /\ Len(rets[1].req.rows) > Len(rets[1].req.cols)
    /\ rets[1].req.rows[1] = rets[1].req.cols[1]
    /\ inner_product # "None"
    /\ rets[1].err = "ValueError"
    /\ rets[1].line = 332

\* C13: on an object constructed without save_field, lin_combine and
\* _compute_modes both fail with UndefinedError at call time, before any
\* field is loaded.
C13_NoSaveFieldIsUndefinedError ==
    \A k \in CallsOf("lin_combine") \cup CallsOf("modes") :
        save_field = "None"
        => rets[k].err = "UndefinedError" /\ rets[k].loads = 0

\* C14: on an object constructed without inner_product,
\* compute_inner_product_mat and compute_symmetric_inner_product_mat fail
\* with UndefinedError when called.
C14_NoInnerProductIsUndefinedError ==
    \A k \in CallsOf("rect") \cup CallsOf("sym") :
        inner_product = "None" => rets[k].err = "UndefinedError"

-----------------------------------------------------------------------------
(* The memory budget *)

\* C15: at every point during lin_combine the number of Field objects
\* materialized at once (loaded inputs, output accumulators and the scaled
\* temporary being added) never exceeds maxFields.
C15_ResidentWithinBudget ==
    numResident <= maxFields

\* C16: at every point during _compute_inner_product_chunk the number of
\* loaded Field objects still referenced never exceeds rowsPerChunk +
\* colsPerChunk, also while the next row or column batch is being loaded.
C16_OneBatchEachResident ==
    pc \in {"ip_rows", "ip_cols", "ip_block", "ip_return"}
    => numResident <= numRowsPerChunk + numColsPerChunk

-----------------------------------------------------------------------------
(* Properties of idiot_check *)

\* The magnitude idiot_check measures of a field
Mag2(obj) == InnerProduct(inner_product, obj, obj)

\* The idiot_check calls made with a test object, on an object with an
\* inner product
Checked == {k \in CallsOf("idiot_check") :
               rets[k].req.testObj # NoField /\ inner_product # "None"}

\* C17: idiot_check completes without raising for every test object whose
\* multiplication and addition are linear and do not mutate, under every
\* bilinear inner product, and leaves the test object unchanged.
C17_CorrectObjectPasses ==
    \A k \in Checked :
        rets[k].req.fieldKind = "linear"
        => rets[k].err = "none" /\ testObj = rets[k].req.testObj

C17_Witness ==
    /\ Len(rets) = 1
    /\ 1 \in Checked
    /\ rets[1].req.fieldKind = "linear"
    /\ inner_product = "skew"
    /\ Mag2(rets[1].req.testObj) # 0
    /\ rets[1].err = "none"

-----------------------------------------------------------------------------
(* A pluggable operation that raises during lin_combine *)

\* C19: if a pluggable operation fails during lin_combine while the output
\* batch starting at index b is in progress, the failure reaches the caller,
\* every output of the batches before is on storage, and no output of that
\* batch or a later one has been saved.
C19_NoPartialBatchSaved ==
    \A k \in CallsOf("lin_combine") :
        LET req == rets[k].req
        IN  rets[k].err \in {"IOError", "ArithmeticError"}
            => \A j \in 1..Len(req.outputs) :
                  IF j <= rets[k].at
                  THEN storage[req.outputs[j]] # NoField
                  ELSE storage[req.outputs[j]] = NoField

-----------------------------------------------------------------------------
(* Progress reports *)

\* The same request served without and then with progress reports
QuietThenVerbose ==
    /\ Len(rets) = 2
    /\ rets[1].req.op = rets[2].req.op
    /\ rets[1].req.rows = rets[2].req.rows
    /\ rets[1].req.cols = rets[2].req.cols
    /\ ~rets[1].req.verbose
    /\ rets[2].req.verbose

\* C20: for the same handles, budget and pluggable functions, the matrix
\* compute_inner_product_mat and compute_symmetric_inner_product_mat return
\* and the sequence of load and inner_product calls they make are the same
\* with verbose=True and verbose=False.
C20_ProgressIsObservational ==
    QuietThenVerbose
    => /\ rets[2].err = rets[1].err
       /\ rets[2].mat = rets[1].mat
       /\ rets[2].calls = rets[1].calls

C20_Witness ==
    /\ QuietThenVerbose
    /\ rets[1].req.op = "rect"
    /\ rets[1].err = "none"
    /\ Len(rets[1].req.rows) = 2
    /\ Len(rets[1].req.cols) = 3
    /\ chunkSizes = <<1, 2>>
    /\ rets[1].printed = <<>>
    /\ Len(rets[2].printed) = 4
    /\ Len(rets[2].calls) = 2 + 2 * 3 + 6

-----------------------------------------------------------------------------
(* Cell assignments and call counts of the inner-product engines *)

Min(a, b) == IF a < b THEN a ELSE b

IsLoad(e) == e[1] = "load"
IsIP(e) == e[1] = "ip"

\* How often a log assigns to cell [i, j] (lines 240 and 371, 410)
CellWrites(log, i, j) ==
    Len(SelectSeq(log, LAMBDA e : IsIP(e) /\ e[4] = i /\ e[5] = j))

\* The numbers of rows and columns _compute_inner_product_chunk works on for
\* a request: the facade hands it the shorter list as the rows.
ChunkRows(req) == Min(Len(req.rows), Len(req.cols))
ChunkCols(req) == Max(Len(req.rows), Len(req.cols))

\* ceil(a / b)
CeilDiv(a, b) == (a + b - 1) \div b

\* C21: in _compute_inner_product_chunk every cell (i, j) of the matrix is
\* assigned exactly once over the whole run, whatever the numbers of rows and
\* columns and the chunk sizes (dividing them or not): while the routine runs
\* no cell has been assigned twice and no assignment falls outside the
\* matrix, and when it has returned no cell is left unassigned.
C21_EachCellAssignedOnce ==
    /\ pc \in {"ip_rows", "ip_cols", "ip_block"} =>
           \A p \in DOMAIN callLog :
               IsIP(callLog[p]) =>
                   /\ callLog[p][4] \in 0..(numRows - 1)
                   /\ callLog[p][5] \in 0..(numCols - 1)
                   /\ CellWrites(callLog, callLog[p][4], callLog[p][5]) = 1
    /\ \A k \in Returned("rect") :
           /\ Len(SelectSeq(rets[k].calls, IsIP))
                  = ChunkRows(rets[k].req) * ChunkCols(rets[k].req)
           /\ \A i \in 0..(ChunkRows(rets[k].req) - 1) :
                  \A j \in 0..(ChunkCols(rets[k].req) - 1) :
                      CellWrites(rets[k].calls, i, j) = 1

\* A 3 x 3 matrix was computed in row batches of 2 and column batches of 1:
\* the row batch size does not divide the number of rows.
C21_Witness ==
    /\ numRowsPerChunk = 2
    /\ \E k \in Returned("rect") :
           /\ Len(rets[k].req.rows) = 3 /\ Len(rets[k].req.cols) = 3
           /\ Len(SelectSeq(rets[k].calls, IsIP)) = 9

\* C22: when _compute_upper_triangular_inner_product_chunk returns (the row
\* handles being the leading part of the column handles), every cell (i, j)
\* with i <= j was assigned exactly once, with
\* inner_product(load(row i), load(column j)), and every cell with i > j was
\* never assigned and is still zero, for every chunk-size pair.
C22_UpperTriangleAssignedOnce ==
    /\ pc \in {"sym_rows", "sym_diag", "sym_cols", "sym_block"} =>
           \A p \in DOMAIN callLog :
               IsIP(callLog[p]) =>
                   /\ callLog[p][4] <= callLog[p][5]
                   /\ CellWrites(callLog, callLog[p][4], callLog[p][5]) = 1
    /\ \A k \in Returned("symchunk") :
           LET R == rets[k].req.rows
               C == rets[k].req.cols
               log == rets[k].calls
               mat == rets[k].mat
           IN  /\ NumRowsOf(mat) = Len(R)
               /\ \A i \in 1..Len(R) :
                      /\ Len(mat[i]) = Len(C)
                      /\ \A j \in 1..Len(C) :
                             IF i <= j
                             THEN /\ CellWrites(log, i - 1, j - 1) = 1
                                  /\ \E p \in DOMAIN log :
                                         log[p] = <<"ip",
                                                    load_field(InitStorage, R[i]),
                                                    load_field(InitStorage, C[j]),
                                                    i - 1, j - 1>>
                                  /\ mat[i][j] =
                                         InnerProduct(
                                             inner_product,
                                             load_field(InitStorage, R[i]),
                                             load_field(InitStorage, C[j]))
                             ELSE /\ CellWrites(log, i - 1, j - 1) = 0
                                  /\ mat[i][j] = 0

\* The chunk of 2 rows and 3 columns was computed with a row batch of 2: the
\* square block took 3 inner products and the column right of it 2, and the
\* cell below the diagonal is zero.
C22_Witness ==
    /\ numRowsPerChunk = 2
    /\ \E k \in Returned("symchunk") :
           /\ Len(rets[k].req.rows) = 2 /\ Len(rets[k].req.cols) = 3
           /\ Len(SelectSeq(rets[k].calls, IsIP)) = 5
           /\ rets[k].mat[2][1] = 0
           /\ rets[k].mat[1][2] # 0

\* C23: for n handles compute_symmetric_inner_product_mat evaluates
\* inner_product exactly n(n+1)/2 times and compute_inner_product_mat on
\* (H, H) exactly n*n times, and with the same chunk sizes the symmetric
\* engine never performs more loads than the rectangular engine.
C23_SymmetricHalvesTheWork ==
    /\ \A k \in Returned("sym") :
           LET n == Len(rets[k].req.rows)
           IN  2 * Len(SelectSeq(rets[k].calls, IsIP)) = n * (n + 1)
    /\ \A k \in Returned("rect") :
           rets[k].req.rows = rets[k].req.cols =>
               LET n == Len(rets[k].req.rows)
               IN  Len(SelectSeq(rets[k].calls, IsIP)) = n * n
    /\ SymThenRect =>
           /\ rets[1].loads <= rets[2].loads
           /\ Len(SelectSeq(rets[1].calls, IsLoad))
                  <= Len(SelectSeq(rets[2].calls, IsLoad))

\* Three handles in batches of one: the symmetric call made 6 inner products
\* and 3 + 2 + 1 loads, the rectangular call 9 and 3 + 3 * 3.
C23_Witness ==
    /\ SymThenRect
    /\ Len(rets[1].req.rows) = 3
    /\ Len(SelectSeq(rets[1].calls, IsIP)) = 6
    /\ Len(SelectSeq(rets[2].calls, IsIP)) = 9
    /\ rets[1].loads = 6
    /\ rets[2].loads = 12

\* How often a handle is in a list, and how often a log loads it
Occurrences(paths, h) == Cardinality({k \in DOMAIN paths : paths[k] = h})
LoadsOf(log, h) == Len(SelectSeq(log, LAMBDA e : IsLoad(e) /\ e[2] = h))

\* The row and column lists as _compute_inner_product_chunk orders them
\* (lines 198-205): the shorter list is the rows.
ChunkRowPaths(req) ==
    IF Len(req.rows) > Len(req.cols) THEN req.cols ELSE req.rows
ChunkColPaths(req) ==
    IF Len(req.rows) > Len(req.cols) THEN req.rows ELSE req.cols

\* C24: in _compute_inner_product_chunk, after the orientation that makes
\* numRows <= numCols, each row handle is loaded exactly once and each column
\* handle exactly ceil(numRows / numRowsPerChunk) times, so the call makes
\* numRows + ceil(numRows / numRowsPerChunk) * numCols loads in all.
C24_RectLoadCount ==
    \A k \in Returned("rect") :
        LET req == rets[k].req
            rowBatches == CeilDiv(ChunkRows(req), numRowsPerChunk)
        IN  /\ rets[k].loads = ChunkRows(req) + rowBatches * ChunkCols(req)
            /\ Len(SelectSeq(rets[k].calls, IsLoad)) = rets[k].loads
            /\ \A h \in AllHandles :
                   LoadsOf(rets[k].calls, h)
                       = Occurrences(ChunkRowPaths(req), h)
                         + rowBatches * Occurrences(ChunkColPaths(req), h)

\* Called with 3 rows and 2 columns and a row batch of 1, the routine worked
\* on 2 rows and 3 columns in 2 row batches: 2 + 2 * 3 loads.
C24_Witness ==
    /\ numRowsPerChunk = 1
    /\ \E k \in Returned("rect") :
           /\ Len(rets[k].req.rows) = 3 /\ Len(rets[k].req.cols) = 2
           /\ rets[k].loads = 8
           /\ Len(SelectSeq(rets[k].calls, IsLoad)) = 8

\* The load_field calls of a log, in order
LoadsIn(log) == SelectSeq(log, IsLoad)

\* C25: in the symmetric engine, when one row batch covers the whole
\* collection (numRowsPerChunk >= n, rows and columns the same n handles), no
\* column batch is ever loaded: the call makes exactly n loads, one for each
\* handle, and the whole upper triangle is filled.
C25_OneRowBatchLoadsEachHandleOnce ==
    /\ (/\ pc \in {"sym_rows", "sym_diag", "sym_cols", "sym_block"}
        /\ rowFieldPaths = colFieldPaths
        /\ numRowsPerChunk >= numRows)
           => /\ pc # "sym_block"
              /\ colSnaps = <<>>
    /\ \A k \in Returned("sym") \cup Returned("symchunk") :
           LET H == rets[k].req.rows
               n == Len(H)
           IN  (rets[k].req.cols = H /\ numRowsPerChunk >= n) =>
                   /\ rets[k].loads = n
                   /\ LoadsIn(rets[k].calls) = LoadEvents(H, 0, n)
                   /\ \A i \in 1..n : \A j \in i..n :
                          /\ CellWrites(rets[k].calls, i - 1, j - 1) = 1
                          /\ rets[k].mat[i][j] =
                                 InnerProduct(inner_product,
                                              load_field(InitStorage, H[i]),
                                              load_field(InitStorage, H[j]))

\* Two handles and a row batch of 2: the symmetric matrix took 2 loads and
\* 3 inner products.
C25_Witness ==
    /\ numRowsPerChunk = 2
    /\ \E k \in Returned("sym") :
           /\ Len(rets[k].req.rows) = 2
           /\ rets[k].loads = 2
           /\ Len(SelectSeq(rets[k].calls, IsIP)) = 3

-----------------------------------------------------------------------------
(* Batch sizes, order of the work and saves of lin_combine *)

InLinCombine == pc \in {"lc_outputs", "lc_inputs", "lc_layers", "lc_save"}

IsSave(e) == e[1] = "save"
IsLayer(e) == e[1] = "layer"

\* The events of the running lin_combine_chunk call: those logged after the
\* last save_field call of lin_combine (the chunk of the batch before ended
\* before its outputs were saved).
chunkLog ==
    LET saves == {p \in DOMAIN callLog : IsSave(callLog[p])}
        last == IF saves = {} THEN 0
                ELSE CHOOSE p \in saves : \A q \in saves : q <= p
    IN  SubSeq(callLog, last + 1, Len(callLog))

\* The layers a log adds for one output, in order
LayersOf(log, output) == SelectSeq(log, LAMBDA e : IsLayer(e) /\ e[2] = output)

\* C27: within one lin_combine_chunk call each input handle is loaded exactly
\* once; each output accumulator is initialised from input 0 and then
\* receives the contributions of inputs 1, 2, ... in strictly ascending index
\* order, each exactly once, whatever numInputsPerChunk is; and the returned
\* list has one accumulator for each coefficient column, in output-index
\* order.
C27_ChunkFoldsInputsInOrder ==
    /\ InLinCombine =>
           /\ Len(LoadsIn(chunkLog)) <= numInputFields
           /\ LoadsIn(chunkLog)
                  = LoadEvents(inputFieldPaths, 0, Len(LoadsIn(chunkLog)))
    /\ pc = "lc_save" =>
           /\ Len(LoadsIn(chunkLog)) = numInputFields
           /\ Len(outputLayers) = Shape1(chunkCoeffMat)
           /\ \A o \in 0..(Shape1(chunkCoeffMat) - 1) :
                  /\ LayersOf(chunkLog, startOutputIndex + o)
                         = [i \in 1..numInputFields |->
                               <<"layer", startOutputIndex + o, i - 1,
                                 IF i = 1 THEN "new" ELSE "add">>]
                  /\ outputLayers[o + 1]
                         = WeightedSum(inputFieldPaths, fieldCoeffMat,
                                       startOutputIndex + o + 1, numInputFields)

\* The second lin_combine_chunk call of a lin_combine returned: 3 inputs were
\* loaded in batches of 2 and folded into the one output of the batch.
C27_Witness ==
    /\ pc = "lc_save"
    /\ startOutputIndex = 1
    /\ numInputFields = 3
    /\ numInputsPerChunk = 2
    /\ Len(outputLayers) = 1
    /\ Len(LayersOf(chunkLog, 1)) = 3

\* The save_field calls of a log, in order, and the position of the j-th
SavesIn(log) == SelectSeq(log, IsSave)
SavePos(log, j) ==
    CHOOSE p \in DOMAIN log :
        IsSave(log[p]) /\ Len(SelectSeq(SubSeq(log, 1, p), IsSave)) = j

\* C29: a successful lin_combine call invokes save_field exactly once for
\* each supplied output handle and for no other handle; each save happens
\* after every input has been folded into that output's accumulator and
\* before any input of the next output batch is loaded; and the storage at
\* the input handles is never written (the output handles being distinct
\* from the input handles).
C29_SavesOnlyTheOutputs ==
    /\ \A h \in SnapHandles : storage[h] = InitStorage[h]
    /\ \A k \in Returned("lin_combine") :
           LET req == rets[k].req
               log == rets[k].calls
               n == Len(req.inputs)
               perNode == OutputsPerNode(maxFields, numProcs)
           IN  /\ SavesIn(log) = [j \in 1..Len(req.outputs) |->
                                     <<"save", req.outputs[j]>>]
               /\ [j \in 1..Len(SavesOf(k)) |-> SavesOf(k)[j].path]
                      = req.outputs
               /\ \A j \in 1..Len(req.outputs) :
                      LET p == SavePos(log, j)
                          before == SubSeq(log, 1, p)
                      IN  /\ Len(LayersOf(log, j - 1)) = n
                          /\ Len(LayersOf(before, j - 1)) = n
                          /\ Len(SelectSeq(before, IsLoad))
                                 = (((j - 1) \div perNode) + 1) * n

\* Two outputs were saved one batch after the other from two inputs: the
\* inputs were loaded once for each output batch.
C29_Witness ==
    /\ OutputsPerNode(maxFields, numProcs) = 1
    /\ \E k \in Returned("lin_combine") :
           /\ Len(rets[k].req.outputs) = 2
           /\ Len(rets[k].req.inputs) = 2
           /\ rets[k].loads = 4
           /\ Len(SavesIn(rets[k].calls)) = 2

\* The lists of a lin_combine request fit its matrix: as many inputs as rows
\* and no more outputs than columns.
Compatible(req) ==
    /\ Shape0(req.coeffs) = Len(req.inputs)
    /\ Len(req.outputs) <= Shape1(req.coeffs)

\* C30: for every maxFields >= 1 and pool size P >= 1 and every non-empty
\* compatible input and output lists, lin_combine terminates normally: the
\* output loop advances by a positive step (numOutputsPerNode >= 1) and
\* every output handle is saved.
C30_LinCombineTerminatesNormally ==
    /\ InLinCombine => numOutputsPerNode >= 1
    /\ \A k \in CallsOf("lin_combine") :
           (save_field # "None" /\ Compatible(rets[k].req)) =>
               /\ rets[k].err = "none"
               /\ rets[k].saves = Len(rets[k].req.outputs)
               /\ \A j \in DOMAIN rets[k].req.outputs :
                      storage[rets[k].req.outputs[j]] # NoField

-----------------------------------------------------------------------------
(* The inner-product engines with the tasks of each pool.map of loads      *)
(* completing one by one.  pool.map hands one task for each path of the    *)
(* batch to the workers and blocks until every result is there; the list   *)
(* it returns is ordered as the paths are.  rowSnaps (colSnaps) stands for *)
(* the list pool.map is building, NoField marking a result not yet there;  *)
(* the engine sees the list only when pool.map has returned.               *)

\* util.eval_func_tuple((self.load_field, path)): the function is applied
\* to the path (lines 362-364 and 402-404)
eval_func_tuple(st, path) == load_field(st, path)

\* pool.map was called for a batch of n paths: no result is there yet
PoolSubmit(n) == [k \in 1..n |-> NoField]

Pending(results) == {k \in DOMAIN results : results[k] = NoField}

\* A pending task can complete next: on a pool of one worker the tasks are
\* worked on in order, on a larger pool any task may be the next to complete.
CanComplete(results, k) ==
    /\ k \in Pending(results)
    /\ numProcs = 1 => \A q \in Pending(results) : k <= q

\* The results are stored in the order they arrive
ResultPosByArrival(results, k) ==
    CHOOSE q \in Pending(results) : \A r \in Pending(results) : q <= r

\* pool.map stores the result of the k-th task at position k of its list
ResultPos(results, k) == k

PoolStore(results, k, field) ==
    [results EXCEPT ![ResultPos(results, k)] = field]

\* Lines 218-225 and 355-364: pool.map is called for the next row batch, or
\* the row loop ends.
PoolRowSubmit ==
    /\ pc \in {"ip_rows", "sym_rows"}
    /\ IF startRowIndex < numRows
       THEN /\ rowSnaps' = PoolSubmit(endRowIndex - startRowIndex)
            /\ numResident' = Max(numResident,
                                  Len(rowSnaps) + Len(colSnaps)
                                  + (endRowIndex - startRowIndex))
            /\ pc' = IF pc = "ip_rows" THEN "ip_rows_map" ELSE "sym_rows_map"
       ELSE /\ pc' = IF pc = "ip_rows" THEN "ip_return" ELSE "sym_return"
            /\ UNCHANGED <<rowSnaps, numResident>>
    /\ UNCHANGED <<objVars, storage, todo, rets, saveLog, numLoads, callLog,
                   stderr, rowFieldPaths, colFieldPaths, transpose,
                   chunkTranspose, startRowIndex, startColIndex, colSnaps,
                   innerProductMat, lcVars, icVars>>

\* A worker completes the load of one row of the batch.
PoolRowTask ==
    /\ pc \in {"ip_rows_map", "sym_rows_map"}
    /\ \E k \in DOMAIN rowSnaps :
           /\ CanComplete(rowSnaps, k)
           /\ rowSnaps' =
                  PoolStore(rowSnaps, k,
                            IF pc = "ip_rows_map"
                            THEN load_field(storage,
                                            rowFieldPaths[startRowIndex + k])
                            ELSE eval_func_tuple(
                                     storage,
                                     rowFieldPaths[startRowIndex + k]))
           /\ callLog' = Append(callLog,
                                <<"load", rowFieldPaths[startRowIndex + k]>>)
    /\ numLoads' = numLoads + 1
    /\ UNCHANGED <<objVars, storage, todo, rets, saveLog, stderr, numResident,
                   pc, rowFieldPaths, colFieldPaths, transpose, chunkTranspose,
                   startRowIndex, startColIndex, colSnaps, innerProductMat,
                   lcVars, icVars>>

\* pool.map returns the row batch: every result is there.
PoolRowJoin ==
    /\ pc \in {"ip_rows_map", "sym_rows_map"}
    /\ Pending(rowSnaps) = {}
    /\ pc' = IF pc = "ip_rows_map" THEN "ip_cols" ELSE "sym_diag"
    /\ startColIndex' = IF pc = "ip_rows_map" THEN 0 ELSE startColIndex
    /\ UNCHANGED <<objVars, storage, todo, rets, saveLog, numLoads, obsVars,
                   rowFieldPaths, colFieldPaths, transpose, chunkTranspose,
                   startRowIndex, rowSnaps, colSnaps, innerProductMat, lcVars,
                   icVars>>

\* Lines 228-235 and 395-404: pool.map is called for the next column batch,
\* or the column loop ends and the row loop moves on.
PoolColSubmit ==
    /\ pc \in {"ip_cols", "sym_cols"}
    /\ IF (pc = "sym_cols" => numColsPerChunk # 0) /\ startColIndex < numCols
       THEN /\ colSnaps' = PoolSubmit(endColIndex - startColIndex)
            /\ numResident' = Max(numResident,
                                  Len(rowSnaps) + Len(colSnaps)
                                  + (endColIndex - startColIndex))
            /\ pc' = IF pc = "ip_cols" THEN "ip_cols_map" ELSE "sym_cols_map"
            /\ UNCHANGED startRowIndex
       ELSE /\ startRowIndex' = NextStart(startRowIndex, numRowsPerChunk)
            /\ pc' = IF pc = "ip_cols" THEN "ip_rows" ELSE "sym_rows"
            /\ UNCHANGED <<colSnaps, numResident>>
    /\ UNCHANGED <<objVars, storage, todo, rets, saveLog, numLoads, callLog,
                   stderr, rowFieldPaths, colFieldPaths, transpose,
                   chunkTranspose, startColIndex, rowSnaps, innerProductMat,
                   lcVars, icVars>>

\* A worker completes the load of one column of the batch.
PoolColTask ==
    /\ pc \in {"ip_cols_map", "sym_cols_map"}
    /\ \E k \in DOMAIN colSnaps :
           /\ CanComplete(colSnaps, k)
           /\ colSnaps' =
                  PoolStore(colSnaps, k,
                            IF pc = "ip_cols_map"
                            THEN load_field(storage,
                                            colFieldPaths[startColIndex + k])
                            ELSE eval_func_tuple(
                                     storage,
                                     colFieldPaths[startColIndex + k]))
           /\ callLog' = Append(callLog,
                                <<"load", colFieldPaths[startColIndex + k]>>)
    /\ numLoads' = numLoads + 1
    /\ UNCHANGED <<objVars, storage, todo, rets, saveLog, stderr, numResident,
                   pc, rowFieldPaths, colFieldPaths, transpose, chunkTranspose,
                   startRowIndex, startColIndex, rowSnaps, innerProductMat,
                   lcVars, icVars>>

\* pool.map returns the column batch: every result is there.
PoolColJoin ==
    /\ pc \in {"ip_cols_map", "sym_cols_map"}
    /\ Pending(colSnaps) = {}
    /\ pc' = IF pc = "ip_cols_map" THEN "ip_block" ELSE "sym_block"
    /\ UNCHANGED <<objVars, storage, todo, rets, saveLog, numLoads, obsVars,
                   rowFieldPaths, colFieldPaths, transpose, chunkTranspose,
                   startRowIndex, startColIndex, rowSnaps, colSnaps,
                   innerProductMat, lcVars, icVars>>

\* One call of either engine, without progress reports: the rows from the
\* first handle on, the columns from any handle on.
PoolScenarios ==
    {<<RectReq(HandleSeq(1, n), C, FALSE)>> : n \in 1..MaxLen, C \in HandleSeqs}
    \cup {<<SymReq(H, FALSE)>> : H \in HandleSeqs}

\* The inner-product engines on a pool of one worker and on the largest pool.
InitPool ==
    /\ InitObject
    /\ numProcs \in {1, MaxProcs}
    /\ inner_product \in IPKinds
    /\ save_field = "None"
    /\ fault = NoFault
    /\ todo \in PoolScenarios

NextPool ==
    \/ CallRect
    \/ CallSym
    \/ PoolRowSubmit
    \/ PoolRowTask
    \/ PoolRowJoin
    \/ PoolColSubmit
    \/ PoolColTask
    \/ PoolColJoin
    \/ RectBlock
    \/ RectReturn
    \/ SymDiag
    \/ SymBlock
    \/ SymReturn

SpecPool == InitPool /\ [][NextPool]_vars

\* Every inner_product call of a log took the fields of the row handle and
\* of the column handle of the cell it was assigned to, and both handles were
\* loaded earlier in the log.
UsesLoadedFields(log, R, C) ==
    \A p \in DOMAIN log :
        IsIP(log[p]) =>
            LET i == log[p][4] + 1
                j == log[p][5] + 1
            IN  /\ i \in DOMAIN R /\ j \in DOMAIN C
                /\ log[p][2] = load_field(InitStorage, R[i])
                /\ log[p][3] = load_field(InitStorage, C[j])
                /\ \E q \in 1..(p - 1) : log[q] = <<"load", R[i]>>
                /\ \E q \in 1..(p - 1) : log[q] = <<"load", C[j]>>

\* C28: with the pool's workers completing the tasks of a batch map in any
\* interleaving, every inner_product evaluation for cell (i, j) happens only
\* after the loads of row handle i and column handle j of the current
\* batches have all completed, and uses exactly the fields of those two
\* handles: position k of a loaded batch is the field of the k-th handle of
\* the batch.
C28_InnerProductsAfterLoads ==
    /\ pc \in {"ip_block", "sym_diag", "sym_block"} =>
           /\ Pending(rowSnaps) = {}
           /\ rowSnaps = PoolMapLoad(storage, rowFieldPaths,
                                     startRowIndex, endRowIndex)
    /\ pc \in {"ip_block", "sym_block"} =>
           /\ Pending(colSnaps) = {}
           /\ colSnaps = PoolMapLoad(storage, colFieldPaths,
                                     startColIndex, endColIndex)
    /\ pc # "idle" => UsesLoadedFields(callLog, rowFieldPaths, colFieldPaths)
    /\ \A k \in Returned("rect") \cup Returned("sym") :
           UsesLoadedFields(rets[k].calls, ChunkRowPaths(rets[k].req),
                            ChunkColPaths(rets[k].req))

\* On a pool of two workers the load of the second row of the first batch
\* completed before the load of the first row, and the inner products of
\* the batch with a column batch have been computed.
C28_Witness ==
    /\ numProcs = 2
    /\ pc = "ip_cols"
    /\ Len(rowSnaps) = 2
    /\ rowFieldPaths[1] # rowFieldPaths[2]
    /\ callLog[1] = <<"load", rowFieldPaths[2]>>
    /\ callLog[2] = <<"load", rowFieldPaths[1]>>
    /\ Len(SelectSeq(callLog, IsIP)) > 0

====
